---- MODULE Spec2Model ----
(***************************************************************************)
(* A model of nft-did-resolver (src/src/index.ts and its subgraph-utils).  *)
(*                                                                         *)
(* Text is modelled as a sequence of chunks.  A chunk is either one of the *)
(* characters the code inspects ("_", ".", ":", "/", "?", "&", "=", the    *)
(* characters of a token id) or an opaque run of other characters          *)
(* ("eip155", a contract address, a fixed piece of an error message).      *)
(* A JS value that may be undefined/null is a sequence of length 0 or 1;   *)
(* a JS number is <<n>> and NaN is <<>>.                                   *)
(***************************************************************************)
EXTENDS Integers, Sequences, FiniteSets, TLC

VARIABLES
    now,      \* Date.now(), milliseconds
    config,   \* the NftResolverConfig the resolver was built with
    pc,       \* per request: the collaborator call the handler last waited for
    req,      \* per request: the arguments of the handler
    loc,      \* per request: the locals of resolve/assetToAccount/accountsToDids,
              \* the async functions that are suspended (innermost last) and
              \* the outcome that is being delivered to the innermost one
    result,   \* per request: the value the handler returned (None before)
    calls,    \* every collaborator call issued so far, in order
    replies,  \* every collaborator call settled so far, in order, with its outcome
    events,   \* per request: the stages it went through
    registry, \* the config handed to getResolver and what getResolver made of it
    codec,    \* an AssetId object handed to the codec and what the codec returned
    jobs      \* the microtask queue: the continuations that are ready to run

vars == <<now, config, pc, req, loc, result, calls, replies, events, registry,
          codec, jobs>>

----------------------------------------------------------------------------
(* Optional values and JS numbers *)

None == <<>>
Some(x) == <<x>>

NaN == <<>>
Num(n) == <<n>>

\* JS truthiness of a number: 0 and NaN are falsy.
TruthyNum(x) == x # NaN /\ x[1] # 0

Range(s) == {s[i] : i \in DOMAIN s}

----------------------------------------------------------------------------
(* String helpers (JS built-ins), on sequences of chunks *)

\* String.prototype.replace(/c/g, d) for a one-chunk pattern
ReplaceAll(s, c, d) == [i \in DOMAIN s |-> IF s[i] = c THEN d ELSE s[i]]

\* index of the first occurrence of chunk c in s, 0 when absent
RECURSIVE IndexFrom(_, _, _)
IndexFrom(s, c, i) ==
    IF i > Len(s) THEN 0
    ELSE IF s[i] = c THEN i
    ELSE IndexFrom(s, c, i + 1)

IndexOf(s, c) == IndexFrom(s, c, 1)

\* String.prototype.split(c)
RECURSIVE Split(_, _)
Split(s, c) ==
    LET k == IndexOf(s, c)
    IN  IF k = 0 THEN <<s>>
        ELSE <<SubSeq(s, 1, k - 1)>> \o Split(SubSeq(s, k + 1, Len(s)), c)

\* String.prototype.includes(sub): sub occurs as a contiguous run of s
Includes(s, sub) ==
    \E i \in 0..(Len(s) - Len(sub)) : SubSeq(s, i + 1, i + Len(sub)) = sub

StartsWith(s, pre) == Len(s) >= Len(pre) /\ SubSeq(s, 1, Len(pre)) = pre

----------------------------------------------------------------------------
(* Numbers in text: Number(text) and Number.prototype.toString(16) *)

HexDigits == <<"0", "1", "2", "3", "4", "5", "6", "7", "8", "9",
               "a", "b", "c", "d", "e", "f">>

DecDigits == {HexDigits[i] : i \in 1..10}

DigitValue(c) == CHOOSE v \in 0..15 : HexDigits[v + 1] = c

RECURSIVE DecValue(_)
DecValue(s) ==
    IF s = <<>> THEN 0
    ELSE 10 * DecValue(SubSeq(s, 1, Len(s) - 1)) + DigitValue(s[Len(s)])

\* Number(text) for the texts the model feeds it: a run of decimal digits is
\* its value, the empty text is 0, anything else is NaN.
Number(s) ==
    IF \A i \in DOMAIN s : s[i] \in DecDigits THEN Num(DecValue(s)) ELSE NaN

RECURSIVE NatToString16(_)
NatToString16(n) ==
    IF n < 16 THEN <<HexDigits[n + 1]>>
    ELSE NatToString16(n \div 16) \o <<HexDigits[(n % 16) + 1]>>

\* x.toString(16) of a JS number that is a natural number or NaN
ToString16(x) == IF x = NaN THEN <<"N", "a", "N">> ELSE NatToString16(x[1])

----------------------------------------------------------------------------
(* caip library (external): ChainId / AssetName / AssetId *)

\* ChainId.toString(), AssetName.toString(): namespace ":" reference
ChainIdToString(c) == <<c.namespace, ":", c.reference>>
AssetNameToString(a) == <<a.namespace, ":", a.reference>>

\* AccountId.toString(): chain id ":" address
AccountIdToString(a) == ChainIdToString(a.chainId) \o <<":", a.address>>

NonEmptyParts(parts, n) ==
    Len(parts) = n /\ \A i \in 1..n : parts[i] # <<>>

\* ChainId.parse(text): two ":"-separated parameters, each a name of the
\* model (one chunk); throws "Invalid chainId provided: ..." otherwise
ChainIdParse(key) ==
    IF NonEmptyParts(Split(key, ":"), 2)
    THEN [ok |-> TRUE]
    ELSE [ok |-> FALSE,
          error |-> [name |-> "Error",
                     message |-> <<"Invalid chainId provided: ">> \o key]]

\* AssetName.parse(text): two ":"-separated parameters; throws "Invalid
\* assetName provided: ..." otherwise
AssetNameParse(text) ==
    IF NonEmptyParts(Split(text, ":"), 2)
    THEN [ok |-> TRUE]
    ELSE [ok |-> FALSE,
          error |-> [name |-> "Error",
                     message |-> <<"Invalid assetName provided: ">> \o text]]

\* the names of the model are single chunks
OneChunkEach(parts) == \A i \in DOMAIN parts : Len(parts[i]) = 1

\* AssetId.parse(caip): the id must have three "/"-separated parameters, or
\* it throws "Invalid assetId provided: ..."; the AssetId built from them
\* parses the first as a ChainId and the second as an AssetName, in this
\* order, each with its own error.
AssetIdParse(caip) ==
    LET p == Split(caip, "/")
    IN  IF ~NonEmptyParts(p, 3)
        THEN [ok |-> FALSE,
              error |-> [name |-> "Error",
                         message |-> <<"Invalid assetId provided: ">> \o caip]]
        ELSE IF ~(ChainIdParse(p[1]).ok /\ OneChunkEach(Split(p[1], ":")))
        THEN [ok |-> FALSE,
              error |-> [name |-> "Error",
                         message |-> <<"Invalid chainId provided: ">> \o p[1]]]
        ELSE IF ~(AssetNameParse(p[2]).ok /\ OneChunkEach(Split(p[2], ":")))
        THEN [ok |-> FALSE,
              error |-> [name |-> "Error",
                         message |-> <<"Invalid assetName provided: ">> \o p[2]]]
        ELSE [ok |-> TRUE,
              value |-> [chainId |-> [namespace |-> Split(p[1], ":")[1][1],
                                      reference |-> Split(p[1], ":")[2][1]],
                         assetName |-> [namespace |-> Split(p[2], ":")[1][1],
                                        reference |-> Split(p[2], ":")[2][1]],
                         tokenId |-> p[3]]]

----------------------------------------------------------------------------
(* index.ts: identifier codec *)

\* .replace(/\?.+$/, ''): cut at the first "?" that has text after it
StripQuery(s) ==
    LET k == IndexOf(s, "?")
    IN  IF k # 0 /\ k < Len(s) THEN SubSeq(s, 1, k - 1) ELSE s

\* .replace(/^did:nft:/, '')
StripPrefix(s) == IF StartsWith(s, <<"did:nft:">>) THEN Tail(s) ELSE s

\* mutant: the prefix is put in front of every token id
CanonicalTokenIdAlwaysPrefixes(t) ==
    IF StartsWith(t, <<"0", "x">>) THEN <<"0", "x">> \o t
    ELSE <<"0", "x">> \o ToString16(Number(t))

\* tokenId.startsWith('0x') ? tokenId : `0x${Number(tokenId).toString(16)}`
CanonicalTokenId(t) ==
    IF StartsWith(t, <<"0", "x">>) THEN t
    ELSE <<"0", "x">> \o ToString16(Number(t))

\* mutant: the query is not cut off before the identifier is parsed
didToCaipKeepsQuery(id) ==
    LET caip == ReplaceAll(ReplaceAll(StripPrefix(id), "_", "/"), ".", ":")
        parsed == AssetIdParse(caip)
    IN  IF parsed.ok
        THEN [ok |-> TRUE,
              value |-> [parsed.value EXCEPT
                            !.tokenId = CanonicalTokenId(parsed.value.tokenId)]]
        ELSE parsed

didToCaip(id) ==
    LET caip == ReplaceAll(ReplaceAll(StripQuery(StripPrefix(id)), "_", "/"),
                           ".", ":")
        parsed == AssetIdParse(caip)
    IN  IF parsed.ok
        THEN [ok |-> TRUE,
              value |-> [parsed.value EXCEPT
                            !.tokenId = CanonicalTokenId(parsed.value.tokenId)]]
        ELSE parsed

\* AssetId.toString(): chain id "/" asset name "/" token id
AssetIdToString(a) ==
    ChainIdToString(a.chainId) \o <<"/">> \o AssetNameToString(a.assetName)
        \o <<"/">> \o a.tokenId

\* the date part of new Date(ms).toISOString() for the whole seconds of the
\* model
IsoOfSeconds ==
    (50 :> "1970-01-01T00:00:50") @@
    (85 :> "1970-01-01T00:01:25") @@
    (85000 :> "1970-01-01T23:36:40")

\* new Date(ms).toISOString(): date and time, ".", milliseconds and "Z"
ToISOString(ms) ==
    <<IsoOfSeconds[ms \div 1000], ".",
      HexDigits[((ms % 1000) \div 100) + 1], HexDigits[((ms % 100) \div 10) + 1],
      HexDigits[(ms % 10) + 1], "Z">>

\* timestamp ? `?versionTime=${toISOString().split('.')[0] + 'Z'}` : ''
VersionTimeQuery(timestamp) ==
    IF TruthyNum(timestamp)
    THEN <<"?", "versionTime", "=">>
         \o Split(ToISOString(timestamp[1] * 1000), ".")[1] \o <<"Z">>
    ELSE <<>>

\* caipToDid: the AssetId object as the call leaves it (its tokenId is
\* assigned when it does not start with '0x')
caipToDidArgument(assetId) ==
    [assetId EXCEPT !.tokenId = CanonicalTokenId(assetId.tokenId)]

\* caipToDid: the text it returns
caipToDid(assetId, timestamp) ==
    <<"did:nft:">>
    \o ReplaceAll(ReplaceAll(AssetIdToString(caipToDidArgument(assetId)), "/", "_"),
                  ":", ".")
    \o VersionTimeQuery(timestamp)

----------------------------------------------------------------------------
(* index.ts: versionTime and subgraph-utils: skew *)

\* new Date(text).getTime() for the date texts of the model; any other text
\* (and undefined) is an invalid date, NaN.  Times are milliseconds.
IsoMillis ==
    ("1970-01-01T00:00:00Z" :> 0) @@
    ("1970-01-01T00:00:00.500Z" :> 500) @@
    ("1970-01-01T00:00:50Z" :> 50000) @@
    ("1970-01-01T00:01:25Z" :> 85000) @@
    ("1970-01-01T00:01:39Z" :> 99000) @@
    ("1970-01-01T23:36:40Z" :> 85000000)

DateGetTime(text) ==
    IF Len(text) = 1 /\ text[1] \in DOMAIN IsoMillis
    THEN Num(IsoMillis[text[1]])
    ELSE NaN

\* Math.floor(x / 1000)
FloorSeconds(x) == IF x = NaN THEN NaN ELSE Num(x[1] \div 1000)

\* versionTime.split('=')[1]: undefined (here the empty text, an invalid date
\* as well) when the element has no "="
ValueOfParam(e) == IF Len(Split(e, "=")) >= 2 THEN Split(e, "=")[2] ELSE <<>>

getVersionTime(query) ==
    LET hits == SelectSeq(Split(query, "&"),
                          LAMBDA e : Includes(e, <<"versionTime">>))
    IN  IF hits # <<>>
        THEN FloorSeconds(DateGetTime(ValueOfParam(hits[1])))
        ELSE Num(0)

\* Date.now() - timestamp <= skew
isWithinLastBlock(nowMs, timestamp, skew) == nowMs - timestamp[1] <= skew

----------------------------------------------------------------------------
(* Errors and number formatting *)

Error(message) == [name |-> "Error", message |-> message]

\* e.toString()
ErrorToString(e) == <<e.name, ": ">> \o e.message

RECURSIVE NatToString10(_)
NatToString10(n) ==
    IF n < 10 THEN <<HexDigits[n + 1]>>
    ELSE NatToString10(n \div 10) \o <<HexDigits[(n % 10) + 1]>>

\* `${x}` of a JS number
NumToString(x) ==
    IF x = NaN THEN <<"N", "a", "N">>
    ELSE IF x[1] < 0 THEN <<"-">> \o NatToString10(0 - x[1])
    ELSE NatToString10(x[1])

\* value of a run of hex digits (either letter case)
LowerHex(c) ==
    CASE c = "A" -> "a" [] c = "B" -> "b" [] c = "C" -> "c"
      [] c = "D" -> "d" [] c = "E" -> "e" [] c = "F" -> "f"
      [] OTHER -> c

IsHexRun(s) == s # <<>> /\ \A i \in DOMAIN s : LowerHex(s[i]) \in Range(HexDigits)

RECURSIVE HexValue(_)
HexValue(s) ==
    IF s = <<>> THEN 0
    ELSE 16 * HexValue(SubSeq(s, 1, Len(s) - 1)) + DigitValue(LowerHex(s[Len(s)]))

\* hex digits whose letters are all of one case
OneCase(s) ==
    \/ \A i \in DOMAIN s : LowerHex(s[i]) = s[i]
    \/ \A i \in DOMAIN s : s[i] \notin {"a", "b", "c", "d", "e", "f"}

\* new BigNumber(text): "0x" + hex digits of one letter case, or decimal
\* digits; NaN otherwise (also for hex digits of mixed case)
BigNumber(t) ==
    IF StartsWith(t, <<"0", "x">>) /\ IsHexRun(SubSeq(t, 3, Len(t)))
       /\ OneCase(SubSeq(t, 3, Len(t)))
    THEN Num(HexValue(SubSeq(t, 3, Len(t))))
    ELSE IF t # <<>> THEN Number(t) ELSE NaN

\* parseInt(text): the value of the leading run of decimal digits, NaN if none
RECURSIVE LeadingDigits(_)
LeadingDigits(s) ==
    IF s # <<>> /\ s[1] \in DecDigits
    THEN <<s[1]>> \o LeadingDigits(Tail(s))
    ELSE <<>>

ParseInt(s) ==
    IF LeadingDigits(s) = <<>> THEN NaN ELSE Num(DecValue(LeadingDigits(s)))

----------------------------------------------------------------------------
(* subgraph-utils: the indexer queries *)

\* A response of an indexer endpoint is [kind, items, error]:
\*   kind "reject"   fetch rejected (no response)
\*        "notOk"    a response with resp.ok false
\*        "badJson"  an ok response whose body does not parse (json() rejects)
\*        "noData"   an ok response, body without data ({} or {data: null})
\*        "noField"  an ok response, data without the list asked for ({data: {}})
\*        "data"     an ok response, items is the list (blocks or tokens)
\*   error is the message of the body's `error` field, None when it has none.

\* fetchQueryData throws instead of returning data
FetchFails(resp) ==
    resp.kind \in {"reject", "notOk", "badJson"} \/ resp.error # None

\* fetchQueryData: what it throws
FetchFailure(resp) ==
    CASE resp.kind = "reject" ->
            [name |-> "FetchError", message |-> <<"request failed">>]
      [] resp.kind = "notOk" ->
            Error(<<"Received an invalid response from TheGraph API">>)
      [] resp.kind = "badJson" ->
            [name |-> "SyntaxError",
             message |-> <<"Unexpected token '<', \"<html>\" is not valid JSON">>]
      [] OTHER -> Error(resp.error[1])

\* block: blockNum ? { number: blockNum } : null
BlockArg(blockNum) ==
    IF TruthyNum(blockNum)
    THEN <<"block: ", "{number: ">> \o NumToString(blockNum) \o <<"}">>
    ELSE <<"block: ", "null">>

\* blockAtTime: the query sent to the blocks endpoint
BlockQuery(timestamp, blockQueryUrl) ==
    [kind |-> "blocks",
     url |-> blockQueryUrl,
     body |-> <<"blocks", "first: 1", "orderDirection: desc", "timestamp_lte: ">>
              \o NumToString(timestamp)]

\* mutant: a failed block lookup is swallowed and the latest state is used
BlockResultSwallowsFailure(timestamp, resp) ==
    IF ~FetchFails(resp) /\ resp.kind = "data" /\ Len(resp.items) > 0
    THEN [ok |-> TRUE, value |-> ParseInt(resp.items[1])]
    ELSE [ok |-> TRUE, value |-> Num(0)]

\* mutant: the no-block error does not say which time was asked for
BlockResultNoTimestamp(timestamp, resp) ==
    IF FetchFails(resp)
    THEN [ok |-> FALSE, error |-> FetchFailure(resp)]
    ELSE IF resp.kind \in {"noData", "noField"}
    THEN [ok |-> FALSE, error |-> Error(<<"Missing data from subgraph query">>)]
    ELSE IF Len(resp.items) = 0
    THEN [ok |-> FALSE, error |-> Error(<<"No blocks exist before timestamp">>)]
    ELSE [ok |-> TRUE, value |-> ParseInt(resp.items[1])]

\* blockAtTime: what it makes of the response
BlockResult(timestamp, resp) ==
    IF FetchFails(resp)
    THEN [ok |-> FALSE, error |-> FetchFailure(resp)]
    ELSE IF resp.kind \in {"noData", "noField"}
    THEN [ok |-> FALSE, error |-> Error(<<"Missing data from subgraph query">>)]
    ELSE IF Len(resp.items) = 0
    THEN [ok |-> FALSE,
          error |-> Error(<<"No blocks exist before timestamp: ">>
                          \o NumToString(timestamp))]
    ELSE [ok |-> TRUE, value |-> ParseInt(resp.items[1])]

\* `0x${new BigNumber(asset.tokenId).toString(16)}`
QueryTokenId(asset) == <<"0", "x">> \o ToString16(BigNumber(asset.tokenId))

\* erc721OwnerOf / erc1155OwnersOf: the query sent to the ownership endpoint
OwnerQuery(asset, blockNum, queryUrl) ==
    [kind |-> asset.assetName.namespace,
     url |-> queryUrl,
     body |-> <<"tokens", "first: 1", "id: ", asset.assetName.reference, "-">>
              \o QueryTokenId(asset) \o BlockArg(blockNum)]

erc721OwnerResult(asset, resp) ==
    IF FetchFails(resp)
    THEN [ok |-> FALSE, error |-> FetchFailure(resp)]
    ELSE IF resp.kind \in {"noData", "noField"}
    THEN [ok |-> FALSE, error |-> Error(<<"Missing data from subgraph query">>)]
    ELSE IF Len(resp.items) = 0
    THEN [ok |-> FALSE,
          error |-> Error(<<"No owner found for ERC721 NFT ID: ">> \o asset.tokenId
                          \o <<" for contract: ", asset.assetName.reference>>)]
    ELSE [ok |-> TRUE, value |-> <<resp.items[1][1]>>]

\* mutant: the not-found message of erc1155 leaves out the contract
erc1155OwnersResultTerse(asset, resp) ==
    IF ~FetchFails(resp) /\ resp.kind = "data" /\ Len(resp.items) > 0
       /\ Len(resp.items[1]) > 0
    THEN [ok |-> TRUE, value |-> resp.items[1]]
    ELSE [ok |-> FALSE,
          error |-> Error(<<"No owner found for ERC1155 NFT ID: ">> \o asset.tokenId)]

\* erc1155OwnersOf: `!queryData?.tokens[0]` reads tokens[0] of a data object
\* without tokens (TypeError) and short-circuits when there is no data at all
erc1155OwnersResult(asset, resp) ==
    IF FetchFails(resp)
    THEN [ok |-> FALSE, error |-> FetchFailure(resp)]
    ELSE IF resp.kind = "noField"
    THEN [ok |-> FALSE,
          error |-> [name |-> "TypeError",
                     message |-> <<"Cannot read properties of undefined (reading '0')">>]]
    ELSE IF resp.kind = "noData" \/ Len(resp.items) = 0
    THEN [ok |-> FALSE,
          error |-> Error(<<"No tokens with ERC1155 NFT ID: ">> \o asset.tokenId
                          \o <<" found for contract: ", asset.assetName.reference>>)]
    ELSE IF Len(resp.items[1]) = 0
    THEN [ok |-> FALSE,
          error |-> Error(<<"No owner found for ERC1155 NFT ID: ">> \o asset.tokenId
                          \o <<" for contract: ", asset.assetName.reference>>)]
    ELSE [ok |-> TRUE, value |-> resp.items[1]]

----------------------------------------------------------------------------
(* index.ts: the resolution pipeline, pure parts *)

DID_LD_JSON == "application/did+ld+json"
DID_JSON == "application/did+json"

EmptyObject == <<>>

\* timestamp && !isWithinLastBlock(timestamp, chain.skew)
NeedsBlockQuery(nowMs, timestamp, chain) ==
    TruthyNum(timestamp) /\ ~isWithinLastBlock(nowMs, timestamp, chain.skew)

\* ercSubgraphUrls?.erc721, ercSubgraphUrls?.erc1155: undefined is <<>>
SubgraphUrl(chain, namespace) ==
    IF namespace \in DOMAIN chain.assets THEN <<chain.assets[namespace]>> ELSE <<>>

NamespaceSupported(namespace) == namespace \in {"erc721", "erc1155"}

NamespaceError(namespace) ==
    Error(<<"Only erc721 and erc1155 namespaces are currently supported. Given: ",
            namespace>>)

\* mutant: the chain error does not say which chain is missing
ChainErrorAnonymous(assetChainId) ==
    Error(<<"No chain configuration">>)

ChainError(assetChainId) ==
    Error(<<"No chain configuration for ">> \o assetChainId)

\* owners.slice().map(owner => new AccountId({chainId, address: owner}))
OwningAccounts(asset, owners) ==
    [i \in DOMAIN owners |-> [chainId |-> asset.chainId, address |-> owners[i]]]

\* a sequence without the later repeats of its elements
RECURSIVE DropRepeats(_)
DropRepeats(s) ==
    IF s = <<>> THEN <<>>
    ELSE LET front == DropRepeats(SubSeq(s, 1, Len(s) - 1))
         IN  IF s[Len(s)] \in Range(front) THEN front ELSE Append(front, s[Len(s)])

\* mutant: a controller that several owners link to is reported once
ControllersDeduplicated(links) ==
    LET withDid == SelectSeq(links, LAMBDA l : l.did # <<>>)
        controllers == DropRepeats([i \in DOMAIN withDid |-> withDid[i].did])
    IN  IF Len(controllers) > 0 THEN Some(controllers) ELSE None

\* mutant: the controllers are collected from the last link to the first
ControllersReversed(links) ==
    LET withDid == SelectSeq(links, LAMBDA l : l.did # <<>>)
        controllers == [i \in DOMAIN withDid |-> withDid[Len(withDid) + 1 - i].did]
    IN  IF Len(controllers) > 0 THEN Some(controllers) ELSE None

\* accountsToDids: the dids of the links that have one, in link order;
\* undefined (None) when there is none
Controllers(links) ==
    LET withDid == SelectSeq(links, LAMBDA l : l.did # <<>>)
        controllers == [i \in DOMAIN withDid |-> withDid[i].did]
    IN  IF Len(controllers) > 0 THEN Some(controllers) ELSE None

\* mutant: the account id of a verification method is the bare address
VerificationMethodBareAddress(did, account) ==
    [id |-> did \o <<"#", account.address>>,
     type |-> "BlockchainVerificationMethod2021",
     controller |-> did,
     blockchainAccountId |-> <<account.address>>]

VerificationMethod(did, account) ==
    [id |-> did \o <<"#", account.address>>,
     type |-> "BlockchainVerificationMethod2021",
     controller |-> did,
     blockchainAccountId |-> AccountIdToString(account)]

\* mutant: the controller is always an array
ControllerFieldAlwaysArray(controllers) ==
    [isArray |-> TRUE, items |-> controllers]

\* a controller is a single DID when there is exactly one, an array otherwise
ControllerField(controllers) ==
    IF Len(controllers) = 1
    THEN [isArray |-> FALSE, items |-> <<controllers[1]>>]
    ELSE [isArray |-> TRUE, items |-> controllers]

wrapDocument(did, accounts, controllers) ==
    LET doc == [id |-> did,
                verificationMethod |->
                    [i \in DOMAIN accounts |-> VerificationMethod(did, accounts[i])]]
    IN  IF controllers # None
        THEN ("controller" :> ControllerField(controllers[1])) @@ doc
        ELSE doc

\* resolve: the value it returns once owners and links are known
ResolveResult(did, accounts, links) ==
    [didResolutionMetadata |-> [contentType |-> DID_JSON],
     didDocument |-> Some(wrapDocument(did, accounts, Controllers(links))),
     didDocumentMetadata |-> EmptyObject]

\* options.accept || DID_JSON
ContentType(accept) ==
    IF accept = None \/ accept[1] = "" THEN DID_JSON ELSE accept[1]

Without(f, key) == [k \in DOMAIN f \ {key} |-> f[k]]

\* mutant: an unsupported type gets the error but keeps the contentType
NegotiateKeepsContentType(contentType, didResult) ==
    IF contentType = DID_LD_JSON
    THEN [didResult EXCEPT
            !.didDocument = Some(("@context" :> <<"https://w3id.org/did/v1">>)
                                 @@ didResult.didDocument[1]),
            !.didResolutionMetadata = [@ EXCEPT !.contentType = DID_LD_JSON]]
    ELSE IF contentType # DID_JSON
    THEN [didResult EXCEPT
            !.didDocument = None,
            !.didDocumentMetadata = EmptyObject,
            !.didResolutionMetadata = ("error" :> "representationNotSupported") @@ @]
    ELSE didResult

\* mutant: an unsupported type is served as application/did+json
NegotiateFallsBack(contentType, didResult) ==
    IF contentType = DID_LD_JSON
    THEN [didResult EXCEPT
            !.didDocument = Some(("@context" :> <<"https://w3id.org/did/v1">>)
                                 @@ didResult.didDocument[1]),
            !.didResolutionMetadata = [@ EXCEPT !.contentType = DID_LD_JSON]]
    ELSE didResult

\* mutant: the linked-data type is tagged but the context is not injected
NegotiateLdWithoutContext(contentType, didResult) ==
    IF contentType = DID_LD_JSON
    THEN [didResult EXCEPT
            !.didResolutionMetadata = [@ EXCEPT !.contentType = DID_LD_JSON]]
    ELSE IF contentType # DID_JSON
    THEN [didResult EXCEPT
            !.didDocument = None,
            !.didDocumentMetadata = EmptyObject,
            !.didResolutionMetadata =
                ("error" :> "representationNotSupported") @@ Without(@, "contentType")]
    ELSE didResult

\* the handler's content negotiation on a result of resolve
Negotiate(contentType, didResult) ==
    IF contentType = DID_LD_JSON
    THEN [didResult EXCEPT
            !.didDocument = Some(("@context" :> <<"https://w3id.org/did/v1">>)
                                 @@ didResult.didDocument[1]),
            !.didResolutionMetadata = [@ EXCEPT !.contentType = DID_LD_JSON]]
    ELSE IF contentType # DID_JSON
    THEN [didResult EXCEPT
            !.didDocument = None,
            !.didDocumentMetadata = EmptyObject,
            !.didResolutionMetadata =
                ("error" :> "representationNotSupported") @@ Without(@, "contentType")]
    ELSE didResult

\* mutant: the catch block reports another error code
ErrorEnvelopeNotFound(e) ==
    [didResolutionMetadata |-> [error |-> "notFound", message |-> ErrorToString(e)],
     didDocument |-> None,
     didDocumentMetadata |-> EmptyObject]

\* the handler's catch block
ErrorEnvelope(e) ==
    [didResolutionMetadata |-> [error |-> "invalidDid", message |-> ErrorToString(e)],
     didDocument |-> None,
     didDocumentMetadata |-> EmptyObject]

----------------------------------------------------------------------------
(* index.ts: validation of the configuration at construction *)

\* the texts of the model that new URL(text) parses; for any other text it
\* throws TypeError "Invalid URL"
ParseableURLs ==
    { "https://api.thegraph.com/subgraphs/name/yyong1010/ethereumblocks",
      "https://api.thegraph.com/subgraphs/name/touchain/erc721track",
      "https://api.thegraph.com/subgraphs/name/amxx/eip1155-subgraph",
      "http://api.thegraph.com/subgraphs/name/cosmos/721-subgraph" }

NewURL(text) ==
    IF text \in ParseableURLs
    THEN [ok |-> TRUE]
    ELSE [ok |-> FALSE, error |-> [name |-> "TypeError", message |-> <<"Invalid URL">>]]

\* the body of the forEach over Object.entries(config.chains) for one entry:
\* the first thing that throws, None when nothing does
EntryFault(entry) ==
    LET badAssets == SelectSeq(entry.assets, LAMBDA a : ~NewURL(a.url).ok)
    IN  IF ~ChainIdParse(entry.key).ok THEN Some(ChainIdParse(entry.key).error)
        ELSE IF ~NewURL(entry.blocks).ok THEN Some(NewURL(entry.blocks).error)
        ELSE IF badAssets # <<>> THEN Some(NewURL(badAssets[1].url).error)
        ELSE None

\* mutant: only the chain keys are validated, the endpoints are not
validateResolverConfigKeysOnly(given) ==
    IF given = None
    THEN [ok |-> FALSE, error |-> Error(<<"Missing nft-did-resolver config">>)]
    ELSE IF given[1].ceramic = None
    THEN [ok |-> FALSE,
          error |-> Error(<<"Missing ceramic client in nft-did-resolver config">>)]
    ELSE IF given[1].chains = None
    THEN [ok |-> FALSE,
          error |-> Error(<<"Missing chain parameters in nft-did-resolver config">>)]
    ELSE LET faults == SelectSeq(given[1].chains[1],
                                 LAMBDA e : ~ChainIdParse(e.key).ok)
         IN  IF faults # <<>>
             THEN [ok |-> FALSE,
                   error |-> Error(<<"Invalid config for nft-did-resolver: ">>
                                   \o ChainIdParse(faults[1].key).error.message)]
             ELSE [ok |-> TRUE]

\* validateResolverConfig: returns ([ok |-> TRUE]) or throws
validateResolverConfig(given) ==
    IF given = None
    THEN [ok |-> FALSE, error |-> Error(<<"Missing nft-did-resolver config">>)]
    ELSE IF given[1].ceramic = None
    THEN [ok |-> FALSE,
          error |-> Error(<<"Missing ceramic client in nft-did-resolver config">>)]
    ELSE IF given[1].chains = None
    THEN [ok |-> FALSE,
          error |-> Error(<<"Missing chain parameters in nft-did-resolver config">>)]
    ELSE LET faults == SelectSeq(given[1].chains[1],
                                 LAMBDA e : EntryFault(e) # None)
         IN  IF faults # <<>>
             THEN [ok |-> FALSE,
                   error |-> Error(<<"Invalid config for nft-did-resolver: ">>
                                   \o EntryFault(faults[1])[1].message)]
             ELSE [ok |-> TRUE]

\* getResolver: the registry with the nft handler, unless validation throws
getResolver(given) ==
    IF validateResolverConfig(given).ok
    THEN [ok |-> TRUE, methods |-> <<"nft">>]
    ELSE validateResolverConfig(given)

----------------------------------------------------------------------------
(* Configuration and inputs *)

\* the chain's skew in milliseconds
Skew == 15000

BLOCK_QUERY_URL == "https://api.thegraph.com/subgraphs/name/yyong1010/ethereumblocks"
ERC721_QUERY_URL == "https://api.thegraph.com/subgraphs/name/touchain/erc721track"
ERC1155_QUERY_URL == "https://api.thegraph.com/subgraphs/name/amxx/eip1155-subgraph"
COSMOS_721_URL == "http://api.thegraph.com/subgraphs/name/cosmos/721-subgraph"

\* a validated NftResolverConfig: one chain with both asset endpoints, one
\* with an erc721 endpoint only
Config ==
    [ceramic |-> "ceramic",
     chains |->
        (<<"eip155", ":", "1">> :>
            [blocks |-> BLOCK_QUERY_URL, skew |-> Skew,
             assets |-> [erc721 |-> ERC721_QUERY_URL, erc1155 |-> ERC1155_QUERY_URL]])
        @@
        (<<"cosmos", ":", "iov-nftnet">> :>
            [blocks |-> BLOCK_QUERY_URL, skew |-> Skew,
             assets |-> [erc721 |-> COSMOS_721_URL]])]

\* Date.now() in milliseconds.  The clock is scaled down (100 s after the
\* epoch) so that all times fit TLC's integers; milliseconds and seconds keep
\* their factor of 1000.
Clocks == {100000}

Contract == "0x7e789e2dd1340971de0a9bca35b14ac0939aa330"

\* the method-specific id of did:nft:<chain>_<asset>_<tokenId>
MethodId(chainNs, chainRef, assetNs, contract, tokenId) ==
    <<chainNs, ".", chainRef, "_", assetNs, ".", contract, "_">> \o tokenId

MethodIds ==
    { MethodId("eip155", "1", "erc721", Contract, <<"1", "0">>),
      MethodId("eip155", "1", "erc1155", Contract, <<"0", "x", "1">>),
      MethodId("eip155", "1", "erc123", Contract, <<"1">>),
      MethodId("eip155", "5", "erc721", Contract, <<"1">>),
      MethodId("eip155", "5", "erc123", Contract, <<"1">>),
      MethodId("cosmos", "iov-nftnet", "erc1155", Contract, <<"1">>),
      <<"eip155", "_", "erc721", ".", Contract, "_", "1">>,
      <<"eip155", ".", "1", "_", "erc721", ".", Contract>> }

\* the query part of the DID URL ('' when there is none)
Queries ==
    { <<>>,
      <<"versionId", "=", "1">>,
      <<"x", "versionTime", "=", "1970-01-01T00:00:50Z">>,
      <<"versionId", "=", "1", "&", "versionTime", "=", "1970-01-01T00:00:50Z">>,
      <<"versionTime", "=", "yesterday">> }
    \cup { <<"versionTime", "=", d>> : d \in DOMAIN IsoMillis }

\* options.accept (None when absent)
Accepts ==
    { None, Some(""), Some(DID_JSON), Some(DID_LD_JSON), Some("application/json") }

Requests == [id : MethodIds, query : Queries, accept : Accepts]

\* most owners an erc1155 lookup returns
MaxOwners == 2

Addresses == {"0x431cf61e7aff8e68142f6263e9fadde40aff8c7d",
              "0xef1bd3fc679a6f0cd296b59aff99ddc21409869f",
              "0x5bb822302e78c978f3d73cd7565ad92240779cae"}

\* non-empty lists of distinct addresses, at most MaxOwners long
OwnerLists ==
    { l \in UNION { [1..n -> Addresses] : n \in 1..MaxOwners } :
        \A i, j \in DOMAIN l : i # j => l[i] # l[j] }

\* the message of the `error` field of a response body
BOOM == <<"boom">>

\* responses without the list asked for: no response, a response that is not
\* ok, a body that does not parse, a body without data (with or without an
\* error field), data without the list
Failures ==
    { [kind |-> k, items |-> <<>>, error |-> None] :
        k \in {"reject", "notOk", "badJson", "noData", "noField"} }
    \cup { [kind |-> "noData", items |-> <<>>, error |-> Some(BOOM)] }

\* an ok response whose body has the list l and an error field as well
WithError(l) == [kind |-> "data", items |-> l, error |-> Some(BOOM)]

\* responses of the blocks endpoint: failures, no block, block "0", block "7"
BlockResponses ==
    Failures \cup
    { [kind |-> "data", items |-> b, error |-> None] :
        b \in { <<>>, << <<"0">> >>, << <<"7">> >> } }
    \cup { WithError(<< <<"7">> >>) }

\* responses of an ownership endpoint; a request to an undefined url is rejected
OwnerResponses(namespace, url) ==
    IF url = <<>> THEN { [kind |-> "reject", items |-> <<>>, error |-> None] }
    ELSE IF namespace = "erc721"
    THEN Failures \cup
         { [kind |-> "data", items |-> t, error |-> None] :
             t \in { <<>> } \cup { << <<a>> >> : a \in Addresses } }
         \cup { WithError(<< <<CHOOSE a \in Addresses : TRUE>> >>) }
    ELSE Failures \cup
         { [kind |-> "data", items |-> t, error |-> None] :
             t \in { <<>>, << <<>> >> } \cup { <<l>> : l \in OwnerLists } }
         \cup { WithError(<< <<CHOOSE a \in Addresses : TRUE>> >>) }

\* what the first await of fetchQueryData (fetch) settles with on its own:
\* a rejection or a response that is not ok
Refused(responses) == { x \in responses : x.kind \in {"reject", "notOk"} }

\* the ok responses: what the second await (resp.json()) settles with
Bodies(responses) == responses \ Refused(responses)

\* outcomes of Caip10Link.fromAccount: rejected, a link without did, a link
LinkOutcomes ==
    { [kind |-> "reject", did |-> <<>>], [kind |-> "link", did |-> <<>>],
      [kind |-> "link", did |-> <<"did:3:alice">>],
      [kind |-> "link", did |-> <<"did:3:bob">>] }

\* most chains a configuration handed to getResolver has
MaxChains == 2

\* chain keys: two well-formed ones, one written with a period, one without
\* a reference
ChainKeys ==
    { <<"eip155", ":", "1">>, <<"cosmos", ":", "iov-nftnet">>,
      <<"eip155", ".", "1">>, <<"eip155">> }

NOT_A_URL == "aoeuaoeu"
URL_WITH_SPACE == "http: //api.thegraph.com/subgraphs/name/wighawag/eip721-subgraph"

\* Object.entries of the assets of a chain, in insertion order
AssetEndpoints ==
    { <<>>,
      <<[namespace |-> "erc721", url |-> ERC721_QUERY_URL]>>,
      <<[namespace |-> "erc721", url |-> NOT_A_URL]>>,
      <<[namespace |-> "erc721", url |-> ERC721_QUERY_URL],
        [namespace |-> "erc1155", url |-> URL_WITH_SPACE]>>,
      <<[namespace |-> "erc721", url |-> ERC721_QUERY_URL],
        [namespace |-> "erc1155", url |-> ERC1155_QUERY_URL]>> }

ChainEntries ==
    [key : ChainKeys, blocks : {BLOCK_QUERY_URL, NOT_A_URL}, skew : {Skew},
     assets : AssetEndpoints]

\* Object.entries of a chains map, in insertion order: the keys are distinct
ChainLists ==
    { l \in UNION { [1..n -> ChainEntries] : n \in 0..MaxChains } :
        \A i, j \in DOMAIN l : i # j => l[i].key # l[j].key }

\* what a caller may hand to getResolver: nothing, or a config whose ceramic
\* client or chains map may be missing
GivenConfigs ==
    { None } \cup
    { Some([ceramic |-> c, chains |-> ch]) :
        c \in { None, Some("ceramic") },
        ch \in { None } \cup { Some(l) : l \in ChainLists } }

\* the config the resolver of the requests was built with, as it was given
ConfigGiven ==
    Some([ceramic |-> Some("ceramic"),
          chains |-> Some(<<
            [key |-> <<"eip155", ":", "1">>, blocks |-> BLOCK_QUERY_URL, skew |-> Skew,
             assets |-> <<[namespace |-> "erc721", url |-> ERC721_QUERY_URL],
                          [namespace |-> "erc1155", url |-> ERC1155_QUERY_URL]>>],
            [key |-> <<"cosmos", ":", "iov-nftnet">>, blocks |-> BLOCK_QUERY_URL,
             skew |-> Skew,
             assets |-> <<[namespace |-> "erc721", url |-> COSMOS_721_URL]>>] >>)])

\* the registry of the resolver the requests run on
Constructed == [given |-> ConfigGiven, outcome |-> Some(getResolver(ConfigGiven))]

\* no AssetId object is in the hands of the codec
NoCodec == [step |-> "off"]

\* token ids as callers write them: decimal, canonical hex, hex in upper
\* case, hex with a leading zero
TokenIds ==
    { <<"1">>, <<"0", "x", "1">>, <<"1", "0">>, <<"0", "x", "a">>,
      <<"0", "x", "A">>, <<"0", "x", "0", "a">>, <<"2", "5", "5">>,
      <<"0", "x", "f", "f">> }

\* AssetId objects: chain id, asset name and token id
AssetIds ==
    [chainId : { [namespace |-> "eip155", reference |-> "1"],
                 [namespace |-> "cosmos", reference |-> "iov-nftnet"] },
     assetName : [namespace : {"erc721", "erc1155"}, reference : {Contract}],
     tokenId : TokenIds]

\* the timestamp argument of caipToDid in seconds: undefined, 0, or a time
Timestamps == { None, Num(0), Num(50), Num(85), Num(85000) }

\* how a caller writes the separator inside the chain id and the asset name
Separators == {":", "."}

\* an identifier as a caller writes it: the token id as given, the
\* versionTime suffix when there is a time
WrittenId(a, sep, timestamp) ==
    <<"did:nft:", a.chainId.namespace, sep, a.chainId.reference, "_",
      a.assetName.namespace, sep, a.assetName.reference, "_">>
    \o a.tokenId \o VersionTimeQuery(timestamp)

\* caipToDid(didToCaip(x)); the empty text when x does not decode
Reencoded(x) ==
    IF didToCaip(x).ok THEN caipToDid(didToCaip(x).value, None) ELSE <<>>

Reqs == {"r1", "r2"}

NoAsset ==
    [chainId |-> [namespace |-> "", reference |-> ""],
     assetName |-> [namespace |-> "", reference |-> ""],
     tokenId |-> <<>>]

NoLocals ==
    [asset |-> NoAsset, timestamp |-> Num(0), queryBlock |-> Num(0),
     accounts |-> <<>>, links |-> <<>>, frames |-> <<>>, carry |-> None]

\* the did the dispatcher hands to the handler: the DID without its query
DidOf(request) == <<"did:nft:">> \o request.id

----------------------------------------------------------------------------
(* The handler.  Every `await` gives control back to the microtask queue, so *)
(* there is one action for each settlement of a collaborator's promise and   *)
(* one for each run of an async function between two of its awaits.          *)

\* mutant: the result is kept in one place shared by all requests
ReturnShared(r, res, ev) ==
    /\ pc' = [pc EXCEPT ![r] = "done"]
    /\ result' = [o \in Reqs |-> Some(res)]
    /\ events' = [events EXCEPT ![r] = @ \o ev]

Return(r, res, ev) ==
    /\ pc' = [pc EXCEPT ![r] = "done"]
    /\ result' = [result EXCEPT ![r] = Some(res)]
    /\ events' = [events EXCEPT ![r] = @ \o ev]

\* the job that resumes the innermost suspended function of request r, and
\* the job that runs Promise.all's reaction to the i-th link lookup (i >= 1)
ResumeJob(r) == [req |-> r, index |-> 0]
ElementJob(r, i) == [req |-> r, index |-> i]

\* the outcome of a function that threw e; ev names the stage that failed
Threw(e, ev) == [ok |-> FALSE, error |-> e, ev |-> ev]

\* the suspended functions without the innermost one
Popped(frames) == SubSeq(frames, 1, Len(frames) - 1)

\* the function that asks the ownership endpoint of a namespace
OwnerOf(namespace) == IF namespace = "erc721" THEN "erc721OwnerOf" ELSE "erc1155OwnersOf"

\* the promise that the innermost function of `frames` awaits settles with
\* `outcome`: its continuation is queued behind `queue`
Deliver(r, locals, frames, outcome, queue) ==
    /\ loc' = [loc EXCEPT ![r] = [locals EXCEPT !.frames = frames,
                                               !.carry = Some(outcome)]]
    /\ jobs' = Append(queue, ResumeJob(r))

\* the innermost function of `frames` awaits a promise that is not settled
Await(r, locals, frames, queue) ==
    /\ loc' = [loc EXCEPT ![r] = [locals EXCEPT !.frames = frames,
                                               !.carry = None]]
    /\ jobs' = queue

\* the continuation of function f of request r is the next microtask
Resuming(r, f) ==
    /\ jobs # <<>>
    /\ Head(jobs) = ResumeJob(r)
    /\ loc[r].frames # <<>>
    /\ loc[r].frames[Len(loc[r].frames)] = f
    /\ loc[r].carry # None

\* request r waits for a collaborator at stage p
Waiting(r, p) == pc[r] = p /\ loc[r].carry = None

\* mutant: the ownership query is sent a second time
QueryOwnersTwice(r, asset, timestamp, queryBlock, ev, queue) ==
    LET chain == config.chains[ChainIdToString(asset.chainId)]
        namespace == asset.assetName.namespace
        locals == [loc[r] EXCEPT !.asset = asset, !.timestamp = timestamp,
                                 !.queryBlock = queryBlock]
        query == [req |-> r] @@
                 OwnerQuery(asset, queryBlock, SubgraphUrl(chain, namespace))
    IN  IF NamespaceSupported(namespace)
        THEN /\ calls' = calls \o <<query, query>>
             /\ pc' = [pc EXCEPT ![r] = "owners"]
             /\ Await(r, locals,
                      <<"nft", "resolve", "assetToAccount", OwnerOf(namespace),
                        "fetchQueryData">>, queue)
             /\ events' = [events EXCEPT ![r] = @ \o ev \o <<"issue-owners">>]
        ELSE /\ pc' = [pc EXCEPT ![r] = IF @ = "idle" THEN "started" ELSE @]
             /\ Deliver(r, locals, <<"nft", "resolve">>,
                        Threw(NamespaceError(namespace), <<"namespace-failed">>),
                        queue)
             /\ events' = [events EXCEPT ![r] = @ \o ev]
             /\ UNCHANGED calls

\* assetToAccount from the namespace dispatch on: issue the ownership query
\* and wait for it (assetToAccount -> erc721OwnerOf / erc1155OwnersOf ->
\* fetchQueryData -> fetch), or throw for an unsupported namespace, which
\* rejects the promise that resolve awaits
QueryOwners(r, asset, timestamp, queryBlock, ev, queue) ==
    LET chain == config.chains[ChainIdToString(asset.chainId)]
        namespace == asset.assetName.namespace
        locals == [loc[r] EXCEPT !.asset = asset, !.timestamp = timestamp,
                                 !.queryBlock = queryBlock]
    IN  IF NamespaceSupported(namespace)
        THEN /\ calls' = Append(calls,
                    [req |-> r] @@
                    OwnerQuery(asset, queryBlock, SubgraphUrl(chain, namespace)))
             /\ pc' = [pc EXCEPT ![r] = "owners"]
             /\ Await(r, locals,
                      <<"nft", "resolve", "assetToAccount", OwnerOf(namespace),
                        "fetchQueryData">>, queue)
             /\ events' = [events EXCEPT ![r] = @ \o ev \o <<"issue-owners">>]
        ELSE /\ pc' = [pc EXCEPT ![r] = IF @ = "idle" THEN "started" ELSE @]
             /\ Deliver(r, locals, <<"nft", "resolve">>,
                        Threw(NamespaceError(namespace), <<"namespace-failed">>),
                        queue)
             /\ events' = [events EXCEPT ![r] = @ \o ev]
             /\ UNCHANGED calls

\* the handler from its invocation to its first await: of the blocks query,
\* of the ownership query, or of the promise of resolve that is rejected
\* already (didToCaip threw) or about to be (assetToAccount threw)
Start(r) ==
    /\ pc[r] = "idle"
    /\ UNCHANGED <<registry, codec, now, config, req, replies, result>>
    /\ LET timestamp == getVersionTime(req[r].query)
           decoded == didToCaip(req[r].id)
       IN  IF ~decoded.ok
           THEN /\ pc' = [pc EXCEPT ![r] = "started"]
                /\ Deliver(r, loc[r], <<"nft">>,
                           Threw(decoded.error, <<"decode-failed">>), jobs)
                /\ UNCHANGED <<calls, events>>
           ELSE
           LET asset == decoded.value
               assetChainId == ChainIdToString(asset.chainId)
           IN  IF assetChainId \notin DOMAIN config.chains
               THEN /\ pc' = [pc EXCEPT ![r] = "started"]
                    /\ Deliver(r, [loc[r] EXCEPT !.asset = asset,
                                                 !.timestamp = timestamp],
                               <<"nft", "resolve">>,
                               Threw(ChainError(assetChainId), <<"chain-failed">>),
                               jobs)
                    /\ events' = [events EXCEPT ![r] = @ \o <<"decoded">>]
                    /\ UNCHANGED calls
               ELSE IF NeedsBlockQuery(now, timestamp, config.chains[assetChainId])
               THEN /\ calls' = Append(calls,
                           [req |-> r] @@
                           BlockQuery(timestamp,
                                      <<config.chains[assetChainId].blocks>>))
                    /\ pc' = [pc EXCEPT ![r] = "block"]
                    /\ Await(r, [loc[r] EXCEPT !.asset = asset,
                                               !.timestamp = timestamp],
                             <<"nft", "resolve", "assetToAccount", "blockAtTime",
                               "fetchQueryData">>, jobs)
                    /\ events' = [events EXCEPT ![r] = @ \o <<"decoded", "issue-blocks">>]
               ELSE QueryOwners(r, asset, timestamp, Num(0), <<"decoded">>, jobs)

\* the head of an ok response, whose body is still to come
OkResponse == [kind |-> "ok", items |-> <<>>, error |-> None]

\* the promise of fetch(...) of request r settles: with a rejection or a
\* response that is not ok (the outcome of the call), or with an ok response
FetchSettles(r, kind, responses) ==
    \/ \E resp \in Refused(responses) :
        /\ replies' = Append(replies, [req |-> r, kind |-> kind, index |-> 1,
                                       reply |-> resp.kind, items |-> resp.items,
                                       error |-> resp.error])
        /\ Deliver(r, loc[r], loc[r].frames, resp, jobs)
    \/ /\ Bodies(responses) # {}
       /\ UNCHANGED replies
       /\ Deliver(r, loc[r], loc[r].frames, OkResponse, jobs)

\* the promise of resp.json() of request r settles with a body or a rejection
BodySettles(r, kind, resp) ==
    /\ replies' = Append(replies, [req |-> r, kind |-> kind, index |-> 1,
                                   reply |-> resp.kind, items |-> resp.items,
                                   error |-> resp.error])
    /\ Deliver(r, loc[r], loc[r].frames, resp, jobs)

\* `await fetch(...)` of the blocks query settles
BlockFetched(r) ==
    /\ Waiting(r, "block")
    /\ UNCHANGED <<registry, codec, now, config, req, pc, result, calls, events>>
    /\ FetchSettles(r, "blocks", BlockResponses)

\* mutant: a failed block lookup sets the chain's skew to 0 in the shared
\* configuration
BlockReturnAdjustsSkew(r) ==
    /\ Waiting(r, "blockBody")
    /\ UNCHANGED <<registry, codec, now, req, pc, result, calls, events>>
    /\ \E resp \in Bodies(BlockResponses) :
        /\ BodySettles(r, "blocks", resp)
        /\ IF ~BlockResult(loc[r].timestamp, resp).ok
           THEN config' = [config EXCEPT
                    !.chains[ChainIdToString(loc[r].asset.chainId)].skew = 0]
           ELSE UNCHANGED config

\* `await resp.json()` of the blocks response settles
BlockReturn(r) ==
    /\ Waiting(r, "blockBody")
    /\ UNCHANGED <<registry, codec, now, config, req, pc, result, calls, events>>
    /\ \E resp \in Bodies(BlockResponses) : BodySettles(r, "blocks", resp)

\* the responses the ownership endpoint of request r may give
OwnerResponsesOf(r) ==
    LET asset == loc[r].asset
        namespace == asset.assetName.namespace
    IN  OwnerResponses(namespace,
            SubgraphUrl(config.chains[ChainIdToString(asset.chainId)], namespace))

\* `await fetch(...)` of the ownership query settles
OwnersFetched(r) ==
    /\ Waiting(r, "owners")
    /\ UNCHANGED <<registry, codec, now, config, req, pc, result, calls, events>>
    /\ FetchSettles(r, loc[r].asset.assetName.namespace, OwnerResponsesOf(r))

\* `await resp.json()` of the ownership response settles
OwnersReturn(r) ==
    /\ Waiting(r, "ownersBody")
    /\ UNCHANGED <<registry, codec, now, config, req, pc, result, calls, events>>
    /\ \E resp \in Bodies(OwnerResponsesOf(r)) :
            BodySettles(r, loc[r].asset.assetName.namespace, resp)

\* fetchQueryData runs on: after fetch it throws for a rejection or a
\* response that is not ok and asks for the body of an ok response; after
\* json() it throws (no JSON, an error field) or returns the data.  What it
\* throws or returns is read off the response by its caller's result
\* (BlockResult, erc721OwnerResult, erc1155OwnersResult).
FetchQueryDataResumes(r) ==
    /\ Resuming(r, "fetchQueryData")
    /\ UNCHANGED <<registry, codec, now, config, req, result, calls, replies, events>>
    /\ IF loc[r].carry[1].kind = "ok"
       THEN /\ pc' = [pc EXCEPT ![r] = IF @ = "block" THEN "blockBody" ELSE "ownersBody"]
            /\ Await(r, loc[r], loc[r].frames, Tail(jobs))
       ELSE /\ UNCHANGED pc
            /\ Deliver(r, loc[r], Popped(loc[r].frames), loc[r].carry[1], Tail(jobs))

\* blockAtTime runs on: it returns the block number or throws
BlockAtTimeResumes(r) ==
    /\ Resuming(r, "blockAtTime")
    /\ UNCHANGED <<registry, codec, now, config, req, pc, result, calls, replies,
                   events>>
    /\ LET block == BlockResult(loc[r].timestamp, loc[r].carry[1])
       IN  Deliver(r, loc[r], Popped(loc[r].frames),
                   IF block.ok THEN block
                   ELSE Threw(block.error, <<"blocks-failed">>),
                   Tail(jobs))

\* erc721OwnerOf / erc1155OwnersOf runs on: it returns the owners or throws
OwnerOfResumes(r) ==
    /\ \/ Resuming(r, "erc721OwnerOf")
       \/ Resuming(r, "erc1155OwnersOf")
    /\ UNCHANGED <<registry, codec, now, config, req, pc, result, calls, replies,
                   events>>
    /\ LET asset == loc[r].asset
           owners == IF asset.assetName.namespace = "erc721"
                     THEN erc721OwnerResult(asset, loc[r].carry[1])
                     ELSE erc1155OwnersResult(asset, loc[r].carry[1])
       IN  Deliver(r, loc[r], Popped(loc[r].frames),
                   IF owners.ok THEN owners
                   ELSE Threw(owners.error, <<"owners-failed">>),
                   Tail(jobs))

\* assetToAccount runs on: after blockAtTime to the ownership query, after
\* the ownership lookup to its return of the owning accounts; what was
\* thrown to it, it throws on
AssetToAccountResumes(r) ==
    /\ Resuming(r, "assetToAccount")
    /\ UNCHANGED <<registry, codec, now, config, req, result, replies>>
    /\ LET outcome == loc[r].carry[1]
       IN  IF ~outcome.ok
           THEN /\ Deliver(r, loc[r], Popped(loc[r].frames), outcome, Tail(jobs))
                /\ UNCHANGED <<pc, calls, events>>
           ELSE IF pc[r] \in {"block", "blockBody"}
           THEN QueryOwners(r, loc[r].asset, loc[r].timestamp, outcome.value,
                            <<"blocks-ok">>, Tail(jobs))
           ELSE /\ Deliver(r, loc[r], Popped(loc[r].frames),
                           [ok |-> TRUE,
                            value |-> OwningAccounts(loc[r].asset, outcome.value)],
                           Tail(jobs))
                /\ UNCHANGED <<pc, calls, events>>

\* resolve runs on: after assetToAccount it calls accountsToDids, which
\* starts one identity-link lookup per account and awaits Promise.all of
\* them; after accountsToDids it wraps the document and returns; what was
\* thrown to it, it throws on
ResolveResumes(r) ==
    /\ Resuming(r, "resolve")
    /\ UNCHANGED <<registry, codec, now, config, req, result, replies>>
    /\ LET outcome == loc[r].carry[1]
       IN  IF ~outcome.ok
           THEN /\ Deliver(r, loc[r], Popped(loc[r].frames), outcome, Tail(jobs))
                /\ UNCHANGED <<pc, calls, events>>
           ELSE IF pc[r] # "links"
           THEN LET accounts == outcome.value
                IN  /\ calls' = calls \o
                         [i \in DOMAIN accounts |->
                             [req |-> r, kind |-> "link", url |-> <<>>,
                              body |-> AccountIdToString(accounts[i])]]
                    /\ Await(r, [loc[r] EXCEPT
                                    !.accounts = accounts,
                                    !.links = [i \in DOMAIN accounts |->
                                                [state |-> "pending", did |-> <<>>]]],
                             <<"nft", "resolve", "accountsToDids">>, Tail(jobs))
                    /\ pc' = [pc EXCEPT ![r] = "links"]
                    /\ events' = [events EXCEPT ![r] = @ \o <<"owners-ok", "issue-links">>]
           ELSE /\ Deliver(r, loc[r], Popped(loc[r].frames),
                           [ok |-> TRUE,
                            value |-> ResolveResult(DidOf(req[r]), loc[r].accounts,
                                                    outcome.value)],
                           Tail(jobs))
                /\ UNCHANGED <<pc, calls, events>>

\* the i-th identity-link lookup settles; Promise.all's reaction to it is
\* queued.  A lookup may settle after Promise.all was rejected and after the
\* handler returned.
LinkReturn(r, i) ==
    /\ pc[r] \in {"links", "done"}
    /\ i \in DOMAIN loc[r].links
    /\ loc[r].links[i].state = "pending"
    /\ UNCHANGED <<registry, codec, now, config, req, pc, result, calls, events>>
    /\ \E out \in LinkOutcomes :
        /\ loc' = [loc EXCEPT ![r].links[i] =
                        [state |-> IF out.kind = "reject" THEN "rejected"
                                   ELSE "fulfilled",
                         did |-> out.did]]
        /\ replies' = Append(replies, [req |-> r, kind |-> "link", index |-> i,
                                       reply |-> out.kind, items |-> out.did,
                                       error |-> None])
        /\ jobs' = Append(jobs, ElementJob(r, i))

\* Promise.all of request r is not settled
AllPending(r) ==
    /\ pc[r] = "links"
    /\ loc[r].frames = <<"nft", "resolve", "accountsToDids">>
    /\ loc[r].carry = None

\* Promise.all's reaction to the i-th lookup: the first rejection rejects it,
\* the last fulfilment fulfils it with the links in the order of the
\* accounts; once it is settled a reaction changes nothing
PromiseAllElement(r, i) ==
    /\ jobs # <<>>
    /\ Head(jobs) = ElementJob(r, i)
    /\ i \in DOMAIN loc[r].links
    /\ UNCHANGED <<registry, codec, now, config, req, pc, result, calls, replies,
                   events>>
    /\ LET link == loc[r].links[i]
           links == [loc[r].links EXCEPT
                        ![i].state = IF link.state = "rejected" THEN "failed"
                                     ELSE "done"]
           locals == [loc[r] EXCEPT !.links = links]
       IN  IF AllPending(r) /\ link.state = "rejected"
           THEN Deliver(r, locals, loc[r].frames,
                        Threw([name |-> "Error", message |-> <<"link lookup failed">>],
                              <<"links-failed">>),
                        Tail(jobs))
           ELSE IF AllPending(r) /\ \A j \in DOMAIN links : links[j].state = "done"
           THEN Deliver(r, locals, loc[r].frames, [ok |-> TRUE, value |-> links],
                        Tail(jobs))
           ELSE /\ loc' = [loc EXCEPT ![r] = locals]
                /\ jobs' = Tail(jobs)

\* accountsToDids runs on: it returns the controllers of the links, or
\* throws on what Promise.all was rejected with
AccountsToDidsResumes(r) ==
    /\ Resuming(r, "accountsToDids")
    /\ UNCHANGED <<registry, codec, now, config, req, pc, result, calls, replies,
                   events>>
    /\ Deliver(r, loc[r], Popped(loc[r].frames), loc[r].carry[1], Tail(jobs))

\* the handler runs on after `await resolve(...)`: it negotiates the content
\* type of the result and returns it, or catches what was thrown and returns
\* the error envelope
NftResumes(r) ==
    /\ Resuming(r, "nft")
    /\ UNCHANGED <<registry, codec, now, config, req, calls, replies>>
    /\ LET outcome == loc[r].carry[1]
       IN  /\ IF outcome.ok
              THEN Return(r, Negotiate(ContentType(req[r].accept), outcome.value),
                          <<"links-ok", "resolved">>)
              ELSE Return(r, ErrorEnvelope(outcome.error), outcome.ev)
           /\ loc' = [loc EXCEPT ![r].frames = <<>>, ![r].carry = None]
           /\ jobs' = Tail(jobs)

----------------------------------------------------------------------------
(* Specification: one request on a resolver *)

Init ==
    /\ now \in Clocks
    /\ config = Config
    /\ req \in [Reqs -> Requests]
    /\ \A r \in Reqs \ {"r1"} : req[r] = req["r1"]
    /\ pc = [r \in Reqs |-> IF r = "r1" THEN "idle" ELSE "off"]
    /\ loc = [r \in Reqs |-> NoLocals]
    /\ result = [r \in Reqs |-> None]
    /\ calls = <<>>
    /\ replies = <<>>
    /\ events = [r \in Reqs |-> <<>>]
    /\ registry = Constructed
    /\ codec = NoCodec
    /\ jobs = <<>>

Next ==
    \E r \in Reqs :
        \/ Start(r)
        \/ BlockFetched(r)
        \/ BlockReturn(r)
        \/ OwnersFetched(r)
        \/ OwnersReturn(r)
        \/ \E i \in 1..MaxOwners : LinkReturn(r, i)
        \/ FetchQueryDataResumes(r)
        \/ BlockAtTimeResumes(r)
        \/ OwnerOfResumes(r)
        \/ AssetToAccountResumes(r)
        \/ ResolveResumes(r)
        \/ \E i \in 1..MaxOwners : PromiseAllElement(r, i)
        \/ AccountsToDidsResumes(r)
        \/ NftResumes(r)

Spec == Init /\ [][Next]_vars

\* One request on a resolver, where every collaborator call that was issued
\* completes, with a response or a failure, and the microtask queue is run
SpecLive ==
    /\ Init
    /\ [][Next]_vars
    /\ \A r \in Reqs :
        /\ WF_vars(BlockFetched(r))
        /\ WF_vars(BlockReturn(r))
        /\ WF_vars(OwnersFetched(r))
        /\ WF_vars(OwnersReturn(r))
        /\ \A i \in 1..MaxOwners : WF_vars(LinkReturn(r, i))
        /\ WF_vars(FetchQueryDataResumes(r))
        /\ WF_vars(BlockAtTimeResumes(r))
        /\ WF_vars(OwnerOfResumes(r))
        /\ WF_vars(AssetToAccountResumes(r))
        /\ WF_vars(ResolveResumes(r))
        /\ \A i \in 1..MaxOwners : WF_vars(PromiseAllElement(r, i))
        /\ WF_vars(AccountsToDidsResumes(r))
        /\ WF_vars(NftResumes(r))

----------------------------------------------------------------------------
(* Specification: two requests running concurrently on one resolver *)

\* the requests of the concurrent runs: a token with one owner on a
\* configured chain and on a chain that is not configured; latest state or a
\* past time; a supported or an unsupported content type
ConcurrentRequests ==
    [id : { MethodId("eip155", "1", "erc721", Contract, <<"1", "0">>),
            MethodId("eip155", "5", "erc721", Contract, <<"1">>) },
     query : { <<>>, <<"versionTime", "=", "1970-01-01T00:00:50Z">> },
     accept : { None, Some("application/json") }]

\* the first request asks for a past state of the token on the configured
\* chain (the longest run of the handler); the second asks for the latest
\* state, on either chain and with either content type
InitConcurrent ==
    /\ now \in Clocks
    /\ config = Config
    /\ req \in [Reqs -> ConcurrentRequests]
    /\ req["r1"] = [id |-> MethodId("eip155", "1", "erc721", Contract, <<"1", "0">>),
                    query |-> <<"versionTime", "=", "1970-01-01T00:00:50Z">>,
                    accept |-> None]
    /\ req["r2"].query = <<>>
    /\ pc = [r \in Reqs |-> "idle"]
    /\ loc = [r \in Reqs |-> NoLocals]
    /\ result = [r \in Reqs |-> None]
    /\ calls = <<>>
    /\ replies = <<>>
    /\ events = [r \in Reqs |-> <<>>]
    /\ registry = Constructed
    /\ codec = NoCodec
    /\ jobs = <<>>

SpecConcurrent == InitConcurrent /\ [][Next]_vars

----------------------------------------------------------------------------
(* Specification: construction of a resolver *)

\* getResolver(config) is called: it returns the registry or throws
GetResolver ==
    /\ registry.outcome = None
    /\ registry' = [registry EXCEPT !.outcome = Some(getResolver(registry.given))]
    /\ UNCHANGED <<now, config, pc, req, loc, result, calls, replies, events, codec,
                 jobs>>

InitConstruct ==
    /\ now \in Clocks
    /\ config = Config
    /\ req \in [Reqs -> {CHOOSE q \in Requests : TRUE}]
    /\ pc = [r \in Reqs |-> "off"]
    /\ loc = [r \in Reqs |-> NoLocals]
    /\ result = [r \in Reqs |-> None]
    /\ calls = <<>>
    /\ replies = <<>>
    /\ events = [r \in Reqs |-> <<>>]
    /\ registry \in [given : GivenConfigs, outcome : {None}]
    /\ codec = NoCodec
    /\ jobs = <<>>

NextConstruct == GetResolver

SpecConstruct == InitConstruct /\ [][NextConstruct]_vars

----------------------------------------------------------------------------
(* Specification: the identifier codec on an AssetId object *)

\* caipToDid is called on the object and on its twin (the same asset with the
\* token id written another way), with the timestamp and without
Encode ==
    /\ codec.step = "new"
    /\ codec' = [codec EXCEPT
                    !.step = "encoded",
                    !.asset = caipToDidArgument(codec.given),
                    !.did = caipToDid(codec.given, codec.timestamp),
                    !.bare = caipToDid(codec.given, None),
                    !.didTwin = caipToDid(codec.twin, codec.timestamp)]
    /\ UNCHANGED <<now, config, pc, req, loc, result, calls, replies, events, registry,
                 jobs>>

\* didToCaip is called on what caipToDid returned
Decode ==
    /\ codec.step = "encoded"
    /\ codec' = [codec EXCEPT
                    !.step = "decoded",
                    !.decoded = didToCaip(codec.did),
                    !.decodedBare = didToCaip(codec.bare),
                    !.decodedTwin = didToCaip(codec.didTwin)]
    /\ UNCHANGED <<now, config, pc, req, loc, result, calls, replies, events, registry,
                 jobs>>

\* an identifier a caller wrote is decoded and encoded, and the outcome is
\* decoded and encoded once more
Recode ==
    /\ codec.step = "decoded"
    /\ codec' = [codec EXCEPT
                    !.step = "recoded",
                    !.recoded = Reencoded(codec.written),
                    !.recodedTwice = Reencoded(Reencoded(codec.written))]
    /\ UNCHANGED <<now, config, pc, req, loc, result, calls, replies, events, registry,
                 jobs>>

InitCodec ==
    /\ now \in Clocks
    /\ config = Config
    /\ req \in [Reqs -> {CHOOSE q \in Requests : TRUE}]
    /\ pc = [r \in Reqs |-> "off"]
    /\ loc = [r \in Reqs |-> NoLocals]
    /\ result = [r \in Reqs |-> None]
    /\ calls = <<>>
    /\ replies = <<>>
    /\ events = [r \in Reqs |-> <<>>]
    /\ registry = Constructed
    /\ jobs = <<>>
    /\ \E a \in AssetIds, t \in TokenIds, ts \in Timestamps, sep \in Separators :
         codec = [step |-> "new", given |-> a, twin |-> [a EXCEPT !.tokenId = t],
                  timestamp |-> ts, asset |-> a,
                  written |-> WrittenId([a EXCEPT !.tokenId = t], sep, ts),
                  recoded |-> <<>>, recodedTwice |-> <<>>,
                  did |-> <<>>, bare |-> <<>>, didTwin |-> <<>>,
                  decoded |-> [ok |-> FALSE], decodedBare |-> [ok |-> FALSE],
                  decodedTwin |-> [ok |-> FALSE]]

NextCodec == Encode \/ Decode \/ Recode

SpecCodec == InitCodec /\ [][NextCodec]_vars

----------------------------------------------------------------------------
(* Vocabulary of the properties *)

Returned(r) == pc[r] = "done" /\ result[r] # None

\* the chain id the identifier of r names, as CAIP-2 text
NamedChainId(r) == <<req[r].id[1], ":", req[r].id[3]>>

LinkCalls(r) == SelectSeq(calls, LAMBDA c : c.req = r /\ c.kind = "link")

\* request r has not returned and waits for no collaborator: a continuation
\* of it is in the microtask queue
Running(r) == result[r] = None /\ \E i \in DOMAIN jobs : jobs[i].req = r

\* request r is on its way to its return, or has returned
Returning(r) == Running(r) \/ Returned(r)

Res(r) == result[r][1]

CallsOf(r) == SelectSeq(calls, LAMBDA c : c.req = r)

\* the calls of request r to the indexers (blocks and ownership endpoints)
IndexerCalls(r) == SelectSeq(calls, LAMBDA c : c.req = r /\ c.kind # "link")

RepliesOf(r, kinds) == SelectSeq(replies, LAMBDA p : p.req = r /\ p.kind \in kinds)

OwnerKinds == {"erc721", "erc1155"}

\* a reply that carries no usable data: a transport failure, a body that does
\* not parse or has an error field, a payload without the queried field, an
\* empty list of blocks or tokens, a token without holders, a rejected link
\* lookup
FailedReply(p) ==
    \/ p.reply \in {"reject", "notOk", "badJson", "noData", "noField"}
    \/ p.error # None
    \/ p.kind \in OwnerKinds \cup {"blocks"} /\ p.items = <<>>
    \/ p.kind = "erc1155" /\ p.items # <<>> /\ p.items[1] = <<>>

\* a stage of request r failed
StageFailed(r) ==
    \E e \in Range(events[r]) :
        e \in {"decode-failed", "chain-failed", "namespace-failed",
               "blocks-failed", "owners-failed", "links-failed"}

Resolved(r) == "resolved" \in Range(events[r])

IsInvalidDidEnvelope(res) ==
    /\ res.didDocument = None
    /\ res.didDocumentMetadata = EmptyObject
    /\ DOMAIN res.didResolutionMetadata = {"error", "message"}
    /\ res.didResolutionMetadata.error = "invalidDid"

IsSuccessShape(res) ==
    /\ res.didDocument # None
    /\ "contentType" \in DOMAIN res.didResolutionMetadata
    /\ "error" \notin DOMAIN res.didResolutionMetadata

IsErrorShape(res) ==
    /\ res.didDocument = None
    /\ res.didDocumentMetadata = EmptyObject
    /\ "error" \in DOMAIN res.didResolutionMetadata
    /\ "contentType" \notin DOMAIN res.didResolutionMetadata

\* the text that describes the failure of each stage
Describes(message, r) ==
    LET last == events[r][Len(events[r])]
    IN  CASE last = "decode-failed" ->
                \/ Includes(message, <<"Invalid assetId provided: ">>)
                \/ Includes(message, <<"Invalid chainId provided: ">>)
                \/ Includes(message, <<"Invalid assetName provided: ">>)
          [] last = "chain-failed" -> Includes(message, <<"No chain configuration for ">>)
          [] last = "namespace-failed" ->
                Includes(message, <<"Only erc721 and erc1155 namespaces are currently supported. Given: ">>)
          [] OTHER -> Len(message) > 2

----------------------------------------------------------------------------
(* C1-C5: the result envelope and the order of the stages *)

\* C1: the handler never throws; whenever a stage of the pipeline fails it
\* returns {didDocument: null, didDocumentMetadata: {}, didResolutionMetadata:
\* {error: 'invalidDid', message: <description of the failure>}}, for every
\* identifier, query and accept type.
C1_FailureBecomesEnvelope ==
    \A r \in Reqs :
        StageFailed(r) =>
            /\ Returned(r)
            /\ IsInvalidDidEnvelope(Res(r))
            /\ Describes(Res(r).didResolutionMetadata.message, r)

C1_Witness ==
    /\ Returned("r1")
    /\ "links-failed" \in Range(events["r1"])
    /\ req["r1"].accept = Some("application/json")
    /\ IsInvalidDidEnvelope(Res("r1"))

\* C2: every returned result is either a success (document, contentType, no
\* error) or an error (null document, empty document metadata, error, no
\* contentType), never a mix.
C2_OneShape ==
    \A r \in Reqs :
        result[r] # None =>
            /\ IsSuccessShape(Res(r)) \/ IsErrorShape(Res(r))
            /\ ~(IsSuccessShape(Res(r)) /\ IsErrorShape(Res(r)))
            /\ Res(r).didDocument # None =>
                    "error" \notin DOMAIN Res(r).didResolutionMetadata
            /\ Res(r).didDocument = None =>
                    "contentType" \notin DOMAIN Res(r).didResolutionMetadata

C2_Witness ==
    /\ Returned("r1")
    /\ Resolved("r1")
    /\ IsErrorShape(Res("r1"))
    /\ Res("r1").didResolutionMetadata.error = "representationNotSupported"

\* the accept option names a content type other than the two supported ones
UnsupportedAccept(r) ==
    req[r].accept # None /\ req[r].accept[1] \notin {DID_JSON, DID_LD_JSON}

\* C3 as stated: a request whose accepted content type is neither supported
\* one always gets a null document and error 'representationNotSupported',
\* whatever the outcome of the resolution.
C3_AlwaysNotSupported ==
    \A r \in Reqs :
        Returned(r) /\ UnsupportedAccept(r) =>
            /\ Res(r).didDocument = None
            /\ Res(r).didResolutionMetadata.error = "representationNotSupported"

\* C3 amended: a request whose accept option is a non-empty content type other
\* than the two supported ones always gets a null document; the error is
\* 'representationNotSupported' when the resolution succeeded and 'invalidDid'
\* (the error envelope) when a stage failed.
C3_NotSupportedUnlessFailed ==
    \A r \in Reqs :
        Returned(r) /\ UnsupportedAccept(r) /\ req[r].accept # Some("") =>
            /\ IsErrorShape(Res(r))
            /\ StageFailed(r) => Res(r).didResolutionMetadata.error = "invalidDid"
            /\ ~StageFailed(r) =>
                    /\ Resolved(r)
                    /\ Res(r).didResolutionMetadata.error = "representationNotSupported"

C3_Witness ==
    /\ Returned("r1")
    /\ req["r1"].accept = Some("application/json")
    /\ Resolved("r1")
    /\ Len(loc["r1"].accounts) = 2
    /\ Res("r1").didDocument = None
    /\ Res("r1").didResolutionMetadata.error = "representationNotSupported"

\* the document resolve builds for request r from its owners and links
PlainDocument(r) ==
    wrapDocument(DidOf(req[r]), loc[r].accounts, Controllers(loc[r].links))

\* C4: on success, no accept option or 'application/did+json' gives contentType
\* 'application/did+json' and a document without '@context';
\* 'application/did+ld+json' gives the same id, verificationMethod and
\* controller plus '@context' = 'https://w3id.org/did/v1' and contentType
\* 'application/did+ld+json'.
C4_ContentTypes ==
    \A r \in Reqs :
        Returned(r) /\ Resolved(r) =>
            /\ req[r].accept \in {None, Some(DID_JSON)} =>
                /\ Res(r).didResolutionMetadata = [contentType |-> DID_JSON]
                /\ Res(r).didDocument # None
                /\ "@context" \notin DOMAIN Res(r).didDocument[1]
                /\ Res(r).didDocument[1] = PlainDocument(r)
            /\ req[r].accept = Some(DID_LD_JSON) =>
                /\ Res(r).didResolutionMetadata = [contentType |-> DID_LD_JSON]
                /\ Res(r).didDocument # None
                /\ DOMAIN Res(r).didDocument[1] = DOMAIN PlainDocument(r) \cup {"@context"}
                /\ Res(r).didDocument[1]["@context"] = <<"https://w3id.org/did/v1">>
                /\ \A k \in DOMAIN PlainDocument(r) :
                        Res(r).didDocument[1][k] = PlainDocument(r)[k]

C4_Witness ==
    /\ Returned("r1")
    /\ Resolved("r1")
    /\ req["r1"].accept = Some(DID_LD_JSON)
    /\ "controller" \in DOMAIN Res("r1").didDocument[1]
    /\ "@context" \in DOMAIN Res("r1").didDocument[1]

\* C5: the stages run in the order Decode, ResolveBlock, QueryOwners,
\* LinkControllers; once a stage has failed no call of a later stage is ever
\* issued for the request, and a failed request returns no document.
C5_FailFast ==
    \A r \in Reqs :
        /\ \A i, j \in DOMAIN CallsOf(r) :
                i < j =>
                    /\ CallsOf(r)[j].kind # "blocks"
                    /\ CallsOf(r)[j].kind \in OwnerKinds => CallsOf(r)[i].kind = "blocks"
                    /\ CallsOf(r)[i].kind = "link" => CallsOf(r)[j].kind = "link"
        /\ (\E p \in Range(RepliesOf(r, {"blocks"})) : FailedReply(p)) =>
                \A c \in Range(CallsOf(r)) : c.kind = "blocks"
        /\ (\E p \in Range(RepliesOf(r, OwnerKinds)) : FailedReply(p)) =>
                \A c \in Range(CallsOf(r)) : c.kind # "link"
        /\ (\E e \in Range(events[r]) : e \in {"decode-failed", "chain-failed"}) =>
                CallsOf(r) = <<>>
        /\ "namespace-failed" \in Range(events[r]) =>
                \A c \in Range(CallsOf(r)) : c.kind = "blocks"
        /\ ((\E p \in Range(RepliesOf(r, OwnerKinds \cup {"blocks", "link"})) :
                FailedReply(p)) \/ StageFailed(r)) =>
                \/ result[r] = None
                \/ Res(r).didDocument = None

C5_Witness ==
    /\ Returned("r1")
    /\ \E p \in Range(RepliesOf("r1", {"blocks"})) : p.reply = "data" /\ p.items = <<>>
    /\ Len(CallsOf("r1")) = 1
    /\ Res("r1").didDocument = None

----------------------------------------------------------------------------
(* C6-C8: when the block height is looked up *)

\* the elements of the query whose name is exactly versionTime
VersionTimeParams(query) ==
    SelectSeq(Split(query, "&"), LAMBDA e : Split(e, "=")[1] = <<"versionTime">>)

HasVersionTime(r) == VersionTimeParams(req[r].query) # <<>>

\* the requested time in milliseconds (NaN when it is no date)
RequestedMillis(r) == DateGetTime(ValueOfParam(VersionTimeParams(req[r].query)[1]))

\* the skew of the chain the identifier of r names
SkewOf(r) == config.chains[ChainIdToString(loc[r].asset.chainId)].skew

OlderThanSkew(r) ==
    /\ HasVersionTime(r)
    /\ RequestedMillis(r) # NaN
    /\ now - RequestedMillis(r)[1] > SkewOf(r)

WithinSkew(r) ==
    /\ HasVersionTime(r)
    /\ RequestedMillis(r) # NaN
    /\ now - RequestedMillis(r)[1] >= 0
    /\ now - RequestedMillis(r)[1] <= SkewOf(r)

IssuedOwnerQuery(r) == \E c \in Range(IndexerCalls(r)) : c.kind \in OwnerKinds

Unpinned(c) == Includes(c.body, <<"block: ", "null">>)

\* C6 as stated: a request with a versionTime older than the chain's skew
\* makes exactly two indexer calls: first the block-height query filtered by
\* 'timestamp at or before the requested time in whole seconds', then the
\* ownership query pinned to the block number the first call returned.
C6_BlockThenPinnedOwners ==
    \A r \in Reqs :
        IssuedOwnerQuery(r) /\ OlderThanSkew(r) =>
            LET ic == IndexerCalls(r)
                blocks == RepliesOf(r, {"blocks"})
            IN  /\ Len(ic) = 2
                /\ ic[1].kind = "blocks"
                /\ Includes(ic[1].body,
                            <<"timestamp_lte: ">>
                            \o NatToString10(RequestedMillis(r)[1] \div 1000))
                /\ ic[2].kind \in OwnerKinds
                /\ Len(blocks) = 1
                /\ Includes(ic[2].body,
                            <<"block: ", "{number: ">> \o blocks[1].items[1] \o <<"}">>)

\* C7 as stated: a request whose versionTime is within the chain's skew
\* (milliseconds) of now, 'exactly skew old' included, makes no block-height
\* call; its only indexer call is an un-pinned ownership query.
C7_WithinSkewNoBlockQuery ==
    \A r \in Reqs :
        pc[r] \notin {"off", "idle"} /\ didToCaip(req[r].id).ok
            /\ NamedChainId(r) \in DOMAIN config.chains /\ WithinSkew(r) =>
            \A c \in Range(IndexerCalls(r)) : c.kind \in OwnerKinds /\ Unpinned(c)

\* C8 as stated: a request without a versionTime parameter never calls the
\* block-height endpoint and its ownership query carries no block pin.
C8_NoVersionTimeNoPin ==
    \A r \in Reqs :
        ~HasVersionTime(r) =>
            \A c \in Range(IndexerCalls(r)) : c.kind \in OwnerKinds /\ Unpinned(c)

----------------------------------------------------------------------------
(* C9-C10: not-found and unsupported namespace *)

NoOwnerReply(p) ==
    /\ p.kind \in OwnerKinds
    /\ p.reply = "data"
    /\ p.error = None
    /\ p.items = <<>> \/ p.items[1] = <<>>

\* C9: for erc721 and erc1155, an ownership lookup that returns no owner
\* gives the 'invalidDid' envelope with a null document and a message naming
\* the token id and the contract address.
C9_NoOwnerNamesTokenAndContract ==
    \A r \in Reqs :
        (\E p \in Range(RepliesOf(r, OwnerKinds)) : NoOwnerReply(p)) =>
            /\ Returning(r)
            /\ LinkCalls(r) = <<>>
            /\ Returned(r) =>
                /\ IsInvalidDidEnvelope(Res(r))
                /\ StartsWith(loc[r].asset.tokenId, <<"0", "x">>)
                /\ Includes(Res(r).didResolutionMetadata.message, loc[r].asset.tokenId)
                /\ Includes(Res(r).didResolutionMetadata.message, <<Contract>>)

C9_Witness ==
    /\ Returned("r1")
    /\ loc["r1"].asset.assetName.namespace = "erc1155"
    /\ \E p \in Range(RepliesOf("r1", {"erc1155"})) : NoOwnerReply(p) /\ p.items # <<>>
    /\ Includes(Res("r1").didResolutionMetadata.message, <<Contract>>)

\* the asset namespace the identifier names
NamespaceOf(r) == didToCaip(req[r].id).value.assetName.namespace

\* C10 as stated: an identifier whose asset namespace is neither erc721 nor
\* erc1155 always ends in an error envelope whose message names the
\* unsupported namespace, never in a document.
C10_UnsupportedNamespaceNamed ==
    \A r \in Reqs :
        Returned(r) /\ didToCaip(req[r].id).ok /\ ~NamespaceSupported(NamespaceOf(r)) =>
            /\ IsErrorShape(Res(r))
            /\ Includes(Res(r).didResolutionMetadata.message, <<NamespaceOf(r)>>)

----------------------------------------------------------------------------
(* C11-C13: the document built from the owners and their links *)

\* the owner addresses the ownership endpoint returned for request r, in the
\* order returned
OwnersReplied(r) == RepliesOf(r, OwnerKinds)[1].items[1]

\* request r succeeded and returned a document
HasDocument(r) == Returned(r) /\ Resolved(r) /\ Res(r).didDocument # None

\* C11: on success the document has exactly one verification method per owner
\* address the ownership query returned, in the order returned (one for
\* erc721); the i-th has id '<did>#<owner>', type
\* 'BlockchainVerificationMethod2021', controller the resolved DID and
\* blockchainAccountId '<chain id>:<owner>'; the document id is the DID.
C11_OneMethodPerOwner ==
    \A r \in Reqs :
        HasDocument(r) =>
            LET doc == Res(r).didDocument[1]
                owners == OwnersReplied(r)
                did == DidOf(req[r])
            IN  /\ doc.id = did
                /\ Len(doc.verificationMethod) = Len(owners)
                /\ RepliesOf(r, OwnerKinds)[1].kind = "erc721" =>
                        Len(doc.verificationMethod) = 1
                /\ \A i \in DOMAIN owners :
                        doc.verificationMethod[i] =
                            [id |-> did \o <<"#", owners[i]>>,
                             type |-> "BlockchainVerificationMethod2021",
                             controller |-> did,
                             blockchainAccountId |->
                                NamedChainId(r) \o <<":", owners[i]>>]

C11_Witness ==
    /\ HasDocument("r1")
    /\ RepliesOf("r1", OwnerKinds)[1].kind = "erc1155"
    /\ Len(OwnersReplied("r1")) = 2
    /\ Len(Res("r1").didDocument[1].verificationMethod) = 2

\* the reply of the identity-link lookup for the i-th owner of request r
LinkReplyOf(r, i) ==
    CHOOSE p \in Range(RepliesOf(r, {"link"})) : p.index = i

\* the DIDs linked to the owners of r, in the order of the owners, owners
\* without a link skipped
LinkedDids(r) ==
    LET all == [i \in DOMAIN OwnersReplied(r) |-> LinkReplyOf(r, i).items]
    IN  SelectSeq(all, LAMBDA d : d # <<>>)

\* C12: the controller field is absent when no owning account has an
\* identity link, a single DID when exactly one controller was collected and
\* an array when more than one was; never an empty or one-element array.
C12_ControllerShape ==
    \A r \in Reqs :
        HasDocument(r) =>
            LET doc == Res(r).didDocument[1]
                dids == LinkedDids(r)
            IN  /\ Len(dids) = 0 => "controller" \notin DOMAIN doc
                /\ Len(dids) = 1 =>
                        /\ "controller" \in DOMAIN doc
                        /\ ~doc.controller.isArray
                        /\ doc.controller.items = <<dids[1]>>
                /\ Len(dids) > 1 =>
                        /\ "controller" \in DOMAIN doc
                        /\ doc.controller.isArray
                        /\ Len(doc.controller.items) = Len(dids)
                /\ "controller" \in DOMAIN doc =>
                        ~(doc.controller.isArray /\ Len(doc.controller.items) <= 1)

C12_Witness ==
    /\ HasDocument("r1")
    /\ Len(OwnersReplied("r1")) = 2
    /\ Len(LinkedDids("r1")) = 1
    /\ ~Res("r1").didDocument[1].controller.isArray

\* the handler of r has gone past the identity-link lookups
PastLinks(r) == Returned(r) /\ "issue-links" \in Range(events[r])

\* every identity-link lookup of r has completed
AllLinksCompleted(r) ==
    \A i \in DOMAIN OwnersReplied(r) :
        \E p \in Range(RepliesOf(r, {"link"})) : p.index = i

\* C13 as stated: the identity-link lookups of a request are all issued
\* before any of them is awaited, the request proceeds only after all of them
\* have completed, and the controllers are in the order of their owners.
C13_ProceedsAfterAllCompleted ==
    \A r \in Reqs :
        /\ RepliesOf(r, {"link"}) # <<>> \/ pc[r] = "links" =>
                Len(LinkCalls(r)) = Len(OwnersReplied(r))
        /\ PastLinks(r) => AllLinksCompleted(r)
        /\ HasDocument(r) /\ LinkedDids(r) # <<>> =>
                Res(r).didDocument[1].controller.items = LinkedDids(r)

\* C13 amended: the identity-link lookups of a request are all issued before
\* any of them completes; the document is built only after all of them have
\* completed without error, while the first lookup that fails ends the request
\* with the error envelope at once; and whatever the order of the completions
\* the controllers are in the order of the owners they belong to, owners
\* without a link skipped.
C13_LinksJoinInOwnerOrder ==
    \A r \in Reqs :
        /\ RepliesOf(r, {"link"}) # <<>> \/ pc[r] = "links" =>
                /\ Len(LinkCalls(r)) = Len(OwnersReplied(r))
                /\ \A i \in DOMAIN LinkCalls(r) :
                        LinkCalls(r)[i].body = NamedChainId(r) \o <<":", OwnersReplied(r)[i]>>
        /\ Resolved(r) =>
                \A i \in DOMAIN OwnersReplied(r) :
                    \E p \in Range(RepliesOf(r, {"link"})) :
                        p.index = i /\ p.reply = "link"
        /\ (\E p \in Range(RepliesOf(r, {"link"})) : p.reply = "reject") =>
                /\ Returning(r)
                /\ Returned(r) => IsInvalidDidEnvelope(Res(r))
        /\ HasDocument(r) /\ LinkedDids(r) # <<>> =>
                Res(r).didDocument[1].controller.items = LinkedDids(r)

\* the second owner's lookup completed first and both owners have a link
C13_Witness ==
    /\ HasDocument("r1")
    /\ Len(RepliesOf("r1", {"link"})) = 2
    /\ RepliesOf("r1", {"link"})[1].index = 2
    /\ RepliesOf("r1", {"link"})[1].items = <<"did:3:bob">>
    /\ RepliesOf("r1", {"link"})[2].items = <<"did:3:alice">>
    /\ Res("r1").didDocument[1].controller.items = << <<"did:3:alice">>, <<"did:3:bob">> >>

----------------------------------------------------------------------------
(* C19: a chain that is not configured *)

\* C19: an identifier that names a chain id absent from the configuration
\* gets the error envelope with a message naming that chain id; no indexer
\* call and no identity-link lookup is issued for the request.
C19_ChainNotConfigured ==
    \A r \in Reqs :
        pc[r] \notin {"off", "idle"} /\ didToCaip(req[r].id).ok
            /\ NamedChainId(r) \notin DOMAIN config.chains =>
            /\ Returning(r)
            /\ Returned(r) =>
                /\ IsInvalidDidEnvelope(Res(r))
                /\ Includes(Res(r).didResolutionMetadata.message, NamedChainId(r))
            /\ CallsOf(r) = <<>>
            /\ RepliesOf(r, OwnerKinds \cup {"blocks", "link"}) = <<>>

C19_Witness ==
    /\ Returned("r1")
    /\ NamedChainId("r1") = <<"eip155", ":", "5">>
    /\ req["r1"].query = <<"versionTime", "=", "1970-01-01T00:00:50Z">>
    /\ didToCaip(req["r1"].id).value.assetName.namespace = "erc721"
    /\ IsInvalidDidEnvelope(Res("r1"))

----------------------------------------------------------------------------
(* C14-C15: construction *)

GetResolverReturned == registry.outcome # None

\* the entries of the chains map handed to getResolver
GivenChains == registry.given[1].chains[1]

HasChains ==
    /\ registry.given # None
    /\ registry.given[1].ceramic # None
    /\ registry.given[1].chains # None

TwoPartKey(key) ==
    /\ Len(key) = 3
    /\ key[2] = ":"
    /\ key[1] \notin {":", "."} /\ key[3] \notin {":", "."}

BadKey(entry) == ~TwoPartKey(entry.key)

BadEndpoint(entry) ==
    \/ entry.blocks \in {NOT_A_URL, URL_WITH_SPACE}
    \/ \E a \in Range(entry.assets) : a.url \in {NOT_A_URL, URL_WITH_SPACE}

\* the entry at which the forEach over the chains stops: the first one, in
\* entry order, with a bad key or a bad endpoint
FirstAtFault(i) ==
    /\ i \in DOMAIN GivenChains
    /\ BadKey(GivenChains[i]) \/ BadEndpoint(GivenChains[i])
    /\ \A j \in 1..(i - 1) : ~BadKey(GivenChains[j]) /\ ~BadEndpoint(GivenChains[j])

\* C14 as stated: getResolver throws, returning no handler, whenever any
\* chain key is not a two-part CAIP-2 id, and the message then names that
\* key; it throws whenever a blocks or asset endpoint is not a URL or the
\* ceramic client or the chains map is missing; it does not throw when all
\* keys and URLs are valid.
C14_NamesEveryOffendingKey ==
    GetResolverReturned =>
        LET out == registry.outcome[1]
        IN  /\ ~HasChains => ~out.ok
            /\ HasChains =>
                /\ \A e \in Range(GivenChains) :
                        BadKey(e) => ~out.ok /\ Includes(out.error.message, e.key)
                /\ (\E e \in Range(GivenChains) : BadEndpoint(e)) => ~out.ok
                /\ (\A e \in Range(GivenChains) : ~BadKey(e) /\ ~BadEndpoint(e)) =>
                        out.ok /\ out.methods = <<"nft">>
            /\ ~out.ok => "methods" \notin DOMAIN out

\* C14, amended: getResolver throws, returning no handler, whenever a chain
\* key is not a two-part CAIP-2 id, a blocks endpoint or an asset endpoint is
\* not a URL, or the ceramic client or the chains map is missing, and it does
\* not throw when all keys and URLs are valid. Validation stops at the first
\* entry at fault, in entry order, and reports that entry alone: the message
\* is "Invalid config for nft-did-resolver: " followed by
\* "Invalid chainId provided: <key>" when that entry's key is bad (the key is
\* checked before the entry's endpoints), and by "Invalid URL" otherwise. A
\* bad key of a later entry is not named.
C14_FirstFaultReported ==
    GetResolverReturned =>
        LET out == registry.outcome[1]
        IN  /\ ~HasChains => ~out.ok
            /\ HasChains =>
                /\ (\E e \in Range(GivenChains) : BadKey(e) \/ BadEndpoint(e)) => ~out.ok
                /\ (\A e \in Range(GivenChains) : ~BadKey(e) /\ ~BadEndpoint(e)) =>
                        out.ok /\ out.methods = <<"nft">>
                /\ \A i \in DOMAIN GivenChains :
                        FirstAtFault(i) =>
                            /\ out.error.name = "Error"
                            /\ out.error.message =
                                 IF BadKey(GivenChains[i])
                                 THEN <<"Invalid config for nft-did-resolver: ",
                                        "Invalid chainId provided: ">>
                                      \o GivenChains[i].key
                                 ELSE <<"Invalid config for nft-did-resolver: ",
                                        "Invalid URL">>
            /\ ~out.ok => "methods" \notin DOMAIN out

\* a valid first chain followed by a chain keyed 'eip155.1' whose endpoints
\* are URLs: construction has thrown and the message names that key
C14_Witness ==
    /\ GetResolverReturned
    /\ HasChains
    /\ Len(GivenChains) = 2
    /\ ~BadKey(GivenChains[1]) /\ ~BadEndpoint(GivenChains[1])
    /\ GivenChains[2].key = <<"eip155", ".", "1">>
    /\ ~BadEndpoint(GivenChains[2])
    /\ FirstAtFault(2)
    /\ ~registry.outcome[1].ok
    /\ Includes(registry.outcome[1].error.message,
                <<"Invalid chainId provided: ", "eip155", ".", "1">>)

\* C15 as stated: constructing a resolver whose chains map has no entries
\* fails with a configuration error; no handler is returned.
C15_EmptyChainsRejected ==
    GetResolverReturned /\ HasChains /\ GivenChains = <<>> =>
        ~registry.outcome[1].ok

----------------------------------------------------------------------------
(* C16-C18: the identifier codec *)

\* '0x' followed by lower-case hex digits
CanonicalHex(t) ==
    /\ StartsWith(t, <<"0", "x">>)
    /\ Len(t) > 2
    /\ \A i \in 3..Len(t) : t[i] \in Range(HexDigits)

\* the token a token id text denotes
TokenValue(t) ==
    IF StartsWith(t, <<"0", "x">>) THEN HexValue(SubSeq(t, 3, Len(t))) ELSE DecValue(t)

\* C16: for every asset reference whose tokenId is '0x'-prefixed lower-case
\* hex, didToCaip(caipToDid(a)) equals a in chain namespace, chain reference,
\* asset namespace, contract address and tokenId, with or without a timestamp.
C16_RoundTrip ==
    codec.step = "decoded" /\ CanonicalHex(codec.given.tokenId) =>
        /\ codec.decoded.ok
        /\ codec.decoded.value.chainId.namespace = codec.given.chainId.namespace
        /\ codec.decoded.value.chainId.reference = codec.given.chainId.reference
        /\ codec.decoded.value.assetName.namespace = codec.given.assetName.namespace
        /\ codec.decoded.value.assetName.reference = codec.given.assetName.reference
        /\ codec.decoded.value.tokenId = codec.given.tokenId
        /\ codec.decodedBare.ok
        /\ codec.decodedBare.value = codec.given

C16_Witness ==
    /\ codec.step = "decoded"
    /\ codec.given.tokenId = <<"0", "x", "f", "f">>
    /\ codec.given.chainId.namespace = "cosmos"
    /\ codec.timestamp = Num(85000)
    /\ Includes(codec.did, <<"?", "versionTime", "=">>)
    /\ codec.decoded.ok
    /\ codec.decoded.value = codec.given

\* C17 restricted to decimal and lower-case hex without leading zeros: the
\* writings the code does collapse
C17_CanonicalVariantsCollapse ==
    codec.step = "decoded"
        /\ TokenValue(codec.given.tokenId) = TokenValue(codec.twin.tokenId)
        /\ (\A t \in {codec.given.tokenId, codec.twin.tokenId} :
                StartsWith(t, <<"0", "x">>) => CanonicalHex(t) /\ t[3] # "0")
        => codec.did = codec.didTwin /\ codec.decoded = codec.decodedTwin

\* C17 as stated: two identifiers that differ only in writing the tokenId in
\* decimal or in '0x' hexadecimal decode to equal asset references, two asset
\* references that differ only in that way encode to the same identifier, and
\* a '?versionTime=...' suffix does not change what didToCaip returns.
C17_VariantsCollapse ==
    codec.step = "decoded" =>
        /\ TokenValue(codec.given.tokenId) = TokenValue(codec.twin.tokenId) =>
                /\ codec.did = codec.didTwin
                /\ codec.decoded = codec.decodedTwin
        /\ codec.decoded = codec.decodedBare

\* C18 as stated: caipToDid emits 'did:nft:<chainNamespace>:<chainReference>_
\* <assetNamespace>:<contract>_<tokenId>' with the colons kept, the tokenId
\* '0x'-prefixed hex, followed by '?versionTime=<ISO-8601 UTC, whole seconds,
\* Z>' exactly when a timestamp is supplied.
C18_WireFormat ==
    codec.step # "new" =>
        LET a == codec.given
        IN  /\ SubSeq(codec.did, 1, 8) =
                    <<"did:nft:", a.chainId.namespace, ":", a.chainId.reference, "_",
                      a.assetName.namespace, ":", a.assetName.reference>>
            /\ codec.did[9] = "_"
            /\ StartsWith(SubSeq(codec.did, 10, Len(codec.did)), <<"0", "x">>)
            /\ codec.timestamp = None => ~Includes(codec.did, <<"?">>)
            /\ codec.timestamp # None =>
                    Includes(codec.did, <<"?", "versionTime", "=">>)
                    /\ codec.did[Len(codec.did)] = "Z"

----------------------------------------------------------------------------
(* C20: requests are independent *)

\* the response a reply of the log came from
ResponseOf(p) == [kind |-> p.reply, items |-> p.items, error |-> p.error]

\* what request r returns when it runs alone on the resolver with its
\* identifier, query and accept type and the replies it has received so far
\* (None while it still waits for one)
SoloResult(r) ==
    LET decoded == didToCaip(req[r].id)
        timestamp == getVersionTime(req[r].query)
        blocks == RepliesOf(r, {"blocks"})
        owners == RepliesOf(r, OwnerKinds)
        links == RepliesOf(r, {"link"})
    IN  IF ~decoded.ok THEN Some(ErrorEnvelope(decoded.error))
        ELSE
        LET asset == decoded.value
            chainId == ChainIdToString(asset.chainId)
        IN  IF chainId \notin DOMAIN Config.chains
            THEN Some(ErrorEnvelope(ChainError(chainId)))
            ELSE
            LET asked == NeedsBlockQuery(now, timestamp, Config.chains[chainId])
                block == IF asked /\ blocks # <<>>
                         THEN BlockResult(timestamp, ResponseOf(blocks[1]))
                         ELSE [ok |-> TRUE, value |-> Num(0)]
            IN  IF asked /\ blocks = <<>> THEN None
                ELSE IF ~block.ok THEN Some(ErrorEnvelope(block.error))
                ELSE IF ~NamespaceSupported(asset.assetName.namespace)
                THEN Some(ErrorEnvelope(NamespaceError(asset.assetName.namespace)))
                ELSE IF owners = <<>> THEN None
                ELSE
                LET found == IF asset.assetName.namespace = "erc721"
                             THEN erc721OwnerResult(asset, ResponseOf(owners[1]))
                             ELSE erc1155OwnersResult(asset, ResponseOf(owners[1]))
                IN  IF ~found.ok THEN Some(ErrorEnvelope(found.error))
                    ELSE IF \E p \in Range(links) : p.reply = "reject"
                    THEN Some(ErrorEnvelope(Error(<<"link lookup failed">>)))
                    ELSE IF \A i \in DOMAIN found.value :
                                \E p \in Range(links) : p.index = i
                    THEN Some(Negotiate(ContentType(req[r].accept),
                            ResolveResult(DidOf(req[r]),
                                OwningAccounts(asset, found.value),
                                [i \in DOMAIN found.value |->
                                    [state |-> "done", did |-> LinkReplyOf(r, i).items]])))
                    ELSE None

\* a step touches the request-local state of one request at most
OneRequestPerStep ==
    \E r \in Reqs :
        \A o \in Reqs \ {r} :
            /\ pc'[o] = pc[o]
            /\ loc'[o] = loc[o]
            /\ result'[o] = result[o]
            /\ events'[o] = events[o]
            /\ req'[o] = req[o]

\* C20: for requests running concurrently on one resolver and any
\* interleaving of their suspension points, each request's result equals the
\* result it would produce running alone with the same identifier, accept
\* type and collaborator responses; no step of one request writes anything
\* another request reads, and the configuration is only read.
C20_RequestsIndependent ==
    /\ [](\A r \in Reqs : result[r] # None => result[r] = SoloResult(r))
    /\ [][OneRequestPerStep /\ config' = config]_vars

\* both requests ran interleaved and returned different results
C20_Witness ==
    /\ Returned("r1") /\ Returned("r2")
    /\ Res("r1").didDocument # None
    /\ Res("r2").didDocument = None
    /\ \E i, j, k \in DOMAIN calls :
            /\ i < j /\ j < k
            /\ calls[i].req = "r1" /\ calls[j].req = "r2" /\ calls[k].req = "r1"
    /\ \E i, j \in DOMAIN replies :
            i < j /\ replies[i].req = "r2" /\ replies[j].req = "r1"

----------------------------------------------------------------------------
(* C21: the configuration is read-only after construction *)

\* C21: the configuration is validated once, at getResolver, and is
\* read-only afterwards: no request, successful, failing or rejected at
\* content negotiation, changes a chain entry, endpoint or skew, and no
\* request runs the validation again.
C21_ConfigReadOnly ==
    /\ [](config = Config /\ registry = Constructed)
    /\ [][config' = config /\ registry' = registry]_vars

\* a request failed at the block lookup and the chain still has its skew
C21_Witness ==
    /\ Returned("r1")
    /\ "blocks-failed" \in Range(events["r1"])
    /\ req["r1"].accept = Some(DID_LD_JSON)
    /\ config.chains[<<"eip155", ":", "1">>].skew = Skew
    /\ registry.outcome[1].ok

----------------------------------------------------------------------------
(* C22-C23: no block before the requested time; unsupported namespace *)

NoBlockReply(p) ==
    p.kind = "blocks" /\ p.reply = "data" /\ p.error = None /\ p.items = <<>>

\* C22: when the block-height endpoint returns no block at or before the
\* requested time, the request ends in the 'invalidDid' envelope with a
\* message that names the requested timestamp, and no ownership query is
\* issued.
C22_NoBlockBeforeTimestamp ==
    \A r \in Reqs :
        (\E p \in Range(RepliesOf(r, {"blocks"})) : NoBlockReply(p)) =>
            /\ Returning(r)
            /\ Returned(r) =>
                /\ IsInvalidDidEnvelope(Res(r))
                /\ Includes(Res(r).didResolutionMetadata.message,
                            <<"No blocks exist before timestamp: ">>
                            \o NumToString(getVersionTime(req[r].query)))
            /\ ~IssuedOwnerQuery(r)
            /\ LinkCalls(r) = <<>>

C22_Witness ==
    /\ Returned("r1")
    /\ req["r1"].query = <<"versionTime", "=", "1970-01-01T00:00:50Z">>
    /\ \E p \in Range(RepliesOf("r1", {"blocks"})) : NoBlockReply(p)
    /\ Includes(Res("r1").didResolutionMetadata.message, <<"5", "0">>)
    /\ Len(calls) = 1

\* the asset namespace written in the identifier of r
WrittenNamespace(r) == req[r].id[5]

\* C23 as stated: for an identifier whose asset namespace is not erc721 or
\* erc1155 didToCaip fails, so the request ends in Error at the Decode stage
\* and no block-height query, ownership query or identity-link lookup is
\* issued, also with a versionTime older than skew.
C23_DecodeRejectsNamespace ==
    \A r \in Reqs :
        pc[r] \notin {"off", "idle"} /\ Len(req[r].id) > 5 /\ req[r].id[4] = "_"
            /\ ~NamespaceSupported(WrittenNamespace(r)) =>
            /\ ~didToCaip(req[r].id).ok
            /\ Returned(r) => events[r] = <<"decode-failed">>
            /\ CallsOf(r) = <<>>

----------------------------------------------------------------------------
(* C24-C25, C29: canonical token ids, idempotence, the argument of caipToDid *)

\* the token id in an identifier: what follows the second "_", up to the query
EmittedTokenId(did) ==
    LET rest == SubSeq(did, 10, Len(did))
        k == IndexOf(rest, "?")
    IN  IF k = 0 THEN rest ELSE SubSeq(rest, 1, k - 1)

\* C24 as stated: the tokenId of every asset reference didToCaip returns and
\* of every identifier caipToDid emits is '0x' followed by one or more
\* lower-case hex digits, for every input tokenId, decimal or hex in any
\* letter case.
C24_CanonicalTokenId ==
    codec.step \in {"decoded", "recoded"} =>
        /\ CanonicalHex(EmittedTokenId(codec.did))
        /\ codec.decoded.ok
        /\ CanonicalHex(codec.decoded.value.tokenId)
        /\ didToCaip(codec.written).ok
        /\ CanonicalHex(didToCaip(codec.written).value.tokenId)

\* C25: encoding after decoding is idempotent: for every identifier x that
\* decodes, with y = caipToDid(didToCaip(x)), caipToDid(didToCaip(y)) = y.
C25_EncodeDecodeIdempotent ==
    codec.step = "recoded" /\ didToCaip(codec.written).ok =>
        /\ codec.recoded # <<>>
        /\ didToCaip(codec.recoded).ok
        /\ codec.recodedTwice = codec.recoded

\* a decimal token id written with colons and a versionTime suffix
C25_Witness ==
    /\ codec.step = "recoded"
    /\ codec.written[3] = ":"
    /\ EmittedTokenId(codec.written) = <<"2", "5", "5">>
    /\ Includes(codec.written, <<"?", "versionTime", "=">>)
    /\ EmittedTokenId(codec.recoded) = <<"0", "x", "f", "f">>
    /\ codec.recoded[3] = "."
    /\ codec.recodedTwice = codec.recoded

\* C29 as stated: after caipToDid(assetId, timestamp) returns, assetId has
\* the same chain id, asset name and tokenId, in the same textual form, as
\* before the call.
C29_ArgumentUntouched ==
    codec.step # "new" =>
        /\ codec.asset.chainId = codec.given.chainId
        /\ codec.asset.assetName = codec.given.assetName
        /\ codec.asset.tokenId = codec.given.tokenId

----------------------------------------------------------------------------
(* C26-C27: repeated controllers; the endpoint of the ownership query *)

\* the owners of r whose identity link names the DID d
OwnersLinkedTo(r, d) ==
    {i \in DOMAIN OwnersReplied(r) : LinkReplyOf(r, i).items = d}

\* C26: controllers are not deduplicated: when k >= 2 owning accounts link to
\* the same controller DID, that DID appears k times in the controller array,
\* once per linking owner, at the positions given by owner order.
C26_ControllersNotDeduplicated ==
    \A r \in Reqs :
        HasDocument(r) =>
            \A d \in {<<"did:3:alice">>, <<"did:3:bob">>} :
                Cardinality(OwnersLinkedTo(r, d)) >= 2 =>
                    LET controller == Res(r).didDocument[1].controller
                    IN  /\ controller.isArray
                        /\ Cardinality({i \in DOMAIN controller.items :
                                            controller.items[i] = d})
                                = Cardinality(OwnersLinkedTo(r, d))
                        /\ Len(controller.items) = Len(LinkedDids(r))
                        /\ \A i \in DOMAIN controller.items :
                                controller.items[i] = LinkedDids(r)[i]

C26_Witness ==
    /\ HasDocument("r1")
    /\ Cardinality(OwnersLinkedTo("r1", <<"did:3:alice">>)) = 2
    /\ Res("r1").didDocument[1].controller.items
            = << <<"did:3:alice">>, <<"did:3:alice">> >>

\* C27 as stated: the ownership query of a request is always sent to the
\* endpoint configured under the identifier's own chain id and asset
\* namespace, and when that chain has no endpoint for the namespace the query
\* falls back to a configured default endpoint instead of failing.
C27_OwnEndpointOrDefault ==
    \A r \in Reqs :
        \A c \in Range(IndexerCalls(r)) :
            c.kind \in OwnerKinds =>
                LET assets == Config.chains[NamedChainId(r)].assets
                IN  /\ c.kind = WrittenNamespace(r)
                    /\ c.kind \in DOMAIN assets => c.url = <<assets[c.kind]>>
                    /\ c.kind \notin DOMAIN assets =>
                            /\ c.url # <<>>
                            /\ c.url[1] \in {ERC721_QUERY_URL, ERC1155_QUERY_URL}

----------------------------------------------------------------------------
(* C28: termination *)

StageRank(p) ==
    CASE p = "off" -> 0 [] p = "idle" -> 1 [] p = "started" -> 2
      [] p = "block" -> 3 [] p = "blockBody" -> 4 [] p = "owners" -> 5
      [] p = "ownersBody" -> 6 [] p = "links" -> 7 [] p = "done" -> 8

\* C28: provided every collaborator call that is issued completes, every
\* request eventually returns exactly one result, a success or an error; no
\* request loops or re-enters an earlier stage, and none issues the same
\* indexer call twice.
C28_Terminates ==
    /\ \A r \in Reqs : (pc[r] \notin {"off", "idle"}) ~> Returned(r)
    /\ [][\A r \in Reqs :
            /\ result[r] # None => result'[r] = result[r]
            /\ StageRank(pc'[r]) >= StageRank(pc[r])]_vars
    /\ [](\A r \in Reqs :
            /\ Returned(r) => IsSuccessShape(Res(r)) \/ IsErrorShape(Res(r))
            /\ \A i, j \in DOMAIN IndexerCalls(r) :
                    i # j => IndexerCalls(r)[i].kind # IndexerCalls(r)[j].kind
            /\ Len(LinkCalls(r)) <= MaxOwners)

\* a request that went through every stage and returned
C28_Witness ==
    /\ Returned("r1")
    /\ Resolved("r1")
    /\ Len(IndexerCalls("r1")) = 2
    /\ Len(LinkCalls("r1")) = 2
    /\ Len(replies) = 4

----------------------------------------------------------------------------
(* C30: a versionTime that is present *)

\* C30 as stated: for a request whose query has a versionTime parameter, an
\* un-pinned ownership query is issued only when the parsed time is within
\* skew of now; a value that does not parse as a date, or parses to Unix time
\* 0, never leads to a successful latest-state resolution.
C30_VersionTimeNotDropped ==
    \A r \in Reqs :
        HasVersionTime(r) =>
            /\ (\E c \in Range(IndexerCalls(r)) : c.kind \in OwnerKinds /\ Unpinned(c))
                    => WithinSkew(r)
            /\ RequestedMillis(r) = NaN \/ RequestedMillis(r) = Num(0) => ~Resolved(r)

====
